---- MODULE Spec2Model ----
(***************************************************************************)
(* Verification model of the gaze-processing backend.                      *)
(*                                                                         *)
(*   AdaptationEngine    backend_test/adaptation_service.py                *)
(*   AOICollection       backend/models/aoi_element.py                     *)
(*   HitLogManager       backend/models/hit_log.py                         *)
(*   AchievementManager  backend/models/achievement.py                     *)
(*   GazeDataManager     backend/manager/gaze_manager.py, backend/app.py   *)
(*   GazePoint           backend/models/gaze_point.py                      *)
(*   gaze_websocket      backend_test/sol_main.py, backend_test/main.py    *)
(*   ProcessingService   backend_test/processing_service.py                *)
(*                                                                         *)
(* Each component has its own specification (SpecAdapt, SpecAoi,           *)
(* SpecHitLog, SpecAch; SpecSession, SpecCalib, SpecFit, SpecVocab and     *)
(* SpecSnap for the manager; SpecGaze and SpecPos for the coordinates of   *)
(* a sample; SpecStream for the event stream; SpecDetect, SpecIngest,      *)
(* SpecShared and SpecHub for the WebSocket sessions) over the whole       *)
(* state; an operation of one component leaves the others' variables       *)
(* unchanged.  Times are integer milliseconds, except for time.time(),     *)
(* which is in seconds.                                                    *)
(***************************************************************************)
EXTENDS Integers, Sequences, FiniteSets, TLC

(***************************************************************************)
(* Bounds of the model                                                     *)
(***************************************************************************)
StartTime == 10000      \* wall clock (ms) when the engine is constructed
MaxTime == 15000        \* the wall clock is not advanced past this
MaxEvents == 3          \* process_event calls per behaviour
MaxAois == 3            \* entries of the AOI collection's two lists together
MaxHits == 3            \* entries of the hit log
MaxGazePoints == 2      \* gaze points collected for one ongoing fixation
MaxNow == 1             \* time.time() (s) is not advanced past this
MaxUpdates == 3         \* achievement manager calls per behaviour
MaxSamples == 2         \* gaze samples the workers process per behaviour
MaxCaptures == 5        \* calibration points captured per behaviour
MaxStream == 6          \* messages of a session the detector is followed over
MaxReceived == 101      \* messages of a session the buffer is followed over
MaxShared == 5          \* messages the connections share a detector over
MaxHub == 11            \* messages the connections share the sink over
MaxWords == 21          \* vocabulary words of the page
MaxRepeats == 1         \* samples that land on a word already hit
MaxSnapSamples == 3     \* samples a worker processes between snapshots

Sessions == {"s1"}
NoSession == "no_session"       \* event_data without 'session_id'
NoAoi == "no_aoi"               \* event_data['aoi_id'] is None
NoState == [registered |-> FALSE]   \* session_id not in session_states
NotConnected == "not_connected" \* session_id not in websocket_connections
ClockSteps == {2500, 4999}

VARIABLES
    clock,                  \* datetime.utcnow() in ms
    session_states,         \* AdaptationEngine.session_states
    websocket_connections,  \* AdaptationEngine.websocket_connections
    sent,                   \* feedback frames written to each session's socket
    emitted,                \* timestamps of all commands process_event returned, per session
    returned,               \* return value of the last process_event
    last_call,              \* the return path the last process_event took
    n_events                \* process_event calls so far

adaptVars == <<clock, session_states, websocket_connections, sent, emitted,
               returned, last_call, n_events>>

VARIABLES
    elements,               \* AOICollection.elements: id -> AOI
    vocabulary_words,       \* AOICollection.vocabulary_words
    content_areas           \* AOICollection.content_areas

aoiVars == <<elements, vocabulary_words, content_areas>>

VARIABLES
    hits,                   \* HitLogManager.hits
    current_fixations,      \* HitLogManager.current_fixations: aoi id -> fixation
    sequence_counter        \* HitLogManager.sequence_counter

hitVars == <<hits, current_fixations, sequence_counter>>

VARIABLE unix_time                \* time.time() in s

VARIABLES
    achievements,           \* AchievementManager.achievements: id -> achievement
    recent_unlocks,         \* AchievementManager.recent_unlocks (ids)
    newly_unlocked,         \* return value of the last manager method (ids)
    reported,               \* all return values so far, concatenated
    n_updates               \* manager method calls so far

achVars == <<achievements, recent_unlocks, newly_unlocked, reported, n_updates>>

VARIABLES
    is_streaming,           \* GazeDataManager.is_streaming
    current_session_id,     \* GazeDataManager.current_session_id
    session_start_time,     \* GazeDataManager.session_start_time
    total_samples,          \* GazeDataManager.total_samples
    hit_log_manager,        \* GazeDataManager.hit_log_manager
    achievement_manager,    \* GazeDataManager.achievement_manager
    vocabulary_discoveries, \* GazeDataManager.vocabulary_discoveries
    workers,                \* the mock_worker threads: where each one is
    exports,                \* the session files written, in order
    response,               \* what the last HTTP handler returned, and its path
    n_samples               \* samples the workers have processed so far

sessionVars == <<is_streaming, current_session_id, session_start_time,
                 total_samples, hit_log_manager, achievement_manager,
                 vocabulary_discoveries, workers, exports, response, n_samples>>

VARIABLES
    is_calibrating,         \* GazeDataManager.is_calibrating
    calibration_points,     \* GazeDataManager.calibration_points
    calibration_transform,  \* GazeDataManager.calibration_transform
    current_gaze,           \* GazeDataManager.current_gaze
    calibration_result,     \* what the last calibration method returned
    n_captures              \* capture_calibration_point calls so far

calibVars == <<is_calibrating, calibration_points, calibration_transform,
               current_gaze, calibration_result, n_captures>>

VARIABLES
    sample_point,           \* the GazePoint _process_gaze_sample_from_sdk builds
    sample_transform        \* the calibration_transform it is processed under

gazeVars == <<sample_point, sample_transform>>

VARIABLES
    USE_DATABASE,           \* sol_main.USE_DATABASE and sol_db.pool, after startup
    gaze_data_buffer,       \* sol_main.gaze_data_buffer[session_id]
    sample_count,           \* gaze_websocket: sample_count
    ws_pc,                  \* gaze_websocket: where the handler of the session is
    sample_data,            \* gaze_websocket: the message being handled
    device_time,            \* timestamp (ms) of the last message the glasses sent
    sample_buffer,          \* FixationDetector.sample_buffer
    detected,               \* the events add_sample has returned, in order
    handed,                 \* the events gaze_websocket passed to process_event
    persisted,              \* sample numbers the sink has written to raw_samples
    attempts                \* per buffered sample: bulk_insert_samples calls on it

wsVars == <<USE_DATABASE, gaze_data_buffer, sample_count, ws_pc, sample_data,
            device_time, sample_buffer, detected, handed, persisted, attempts>>

VARIABLES
    event_stream,           \* where the generator of each /api/gaze/stream request is
    disconnected,           \* what request.is_disconnected() answers, per request
    yielded                 \* the last snapshot each generator yielded

sseVars == <<event_stream, disconnected, yielded>>

VARIABLES
    websockets,             \* each connection to /ws/sessions/{id}: where its handler is
    active_sessions,        \* sol_main.active_sessions: session id -> connection
    buffer_of,              \* sol_main.gaze_data_buffer: session id -> list
    registrations,          \* AdaptationEngine.websocket_connections and
                            \* session_states: session id -> connection
    active_lessons,         \* ProcessingService.active_sessions: session id -> lesson
    detector,               \* ProcessingService.fixation_detector.sample_buffer
    sink,                   \* the rows bulk_insert_samples has written, in order
    arrived,                \* the samples the handlers have received, in order
    events_of,              \* per session id: the events handed to process_event
    alone,                  \* per session id: a detector fed that session's
                            \* samples only, and the events it returns
    inserted_events,        \* insert_event calls: the id of the path, the
                            \* session id stored under, the lesson looked up
    hub_time                \* timestamp of the last message, ms

hubVars == <<websockets, active_sessions, buffer_of, registrations,
             active_lessons, detector, sink, arrived, events_of, alone,
             inserted_events, hub_time>>

VARIABLE distinct_texts     \* the vocabulary texts hit since the session started

vocabVars == <<distinct_texts>>

VARIABLE hit_at             \* _process_aoi_hits: the position looked up and
                            \* the position the HitLog records

posVars == <<hit_at>>

VARIABLES
    gaze_trail,             \* GazeDataManager.gaze_trail
    sample_pc,              \* where the worker is in _process_gaze_sample_from_sdk
    frontend_data           \* what the last GET /api/gaze/current returned

snapVars == <<gaze_trail, sample_pc, frontend_data>>

\* What the operations of one component leave alone: the other components.
notAdaptVars == <<aoiVars, hitVars, unix_time, achVars, sessionVars, calibVars, gazeVars, wsVars, sseVars, hubVars, vocabVars, posVars, snapVars>>
notAoiVars == <<adaptVars, hitVars, unix_time, achVars, sessionVars, calibVars, gazeVars, wsVars, sseVars, hubVars, vocabVars, posVars, snapVars>>
notHitVars == <<adaptVars, aoiVars, unix_time, achVars, sessionVars, calibVars, gazeVars, wsVars, sseVars, hubVars, vocabVars, posVars, snapVars>>
notAchVars == <<adaptVars, aoiVars, hitVars, unix_time, sessionVars, calibVars, gazeVars, wsVars, sseVars, hubVars, vocabVars, posVars, snapVars>>
notSessionVars == <<adaptVars, aoiVars, hitVars, unix_time, achVars, calibVars, gazeVars, wsVars, sseVars, hubVars, vocabVars, posVars, snapVars>>
notCalibVars == <<adaptVars, aoiVars, hitVars, unix_time, achVars, sessionVars, gazeVars, wsVars, sseVars, hubVars, vocabVars, posVars, snapVars>>
notManagerVars == <<adaptVars, aoiVars, hitVars, unix_time, achVars, gazeVars, wsVars, sseVars, hubVars, vocabVars, posVars, snapVars>>
notGazeVars == <<adaptVars, aoiVars, hitVars, unix_time, achVars, sessionVars, calibVars, wsVars, sseVars, hubVars, vocabVars, posVars, snapVars>>
notWsVars == <<adaptVars, aoiVars, hitVars, unix_time, achVars, sessionVars, calibVars, gazeVars, sseVars, hubVars, vocabVars, posVars, snapVars>>
notSseVars == <<adaptVars, aoiVars, hitVars, unix_time, achVars, sessionVars, calibVars, gazeVars, wsVars, hubVars, vocabVars, posVars, snapVars>>
notHubVars == <<adaptVars, aoiVars, hitVars, unix_time, achVars, sessionVars, calibVars, gazeVars, wsVars, sseVars, vocabVars, posVars, snapVars>>
notVocabVars == <<adaptVars, aoiVars, hitVars, unix_time, achVars, sessionVars, calibVars, gazeVars, wsVars, sseVars, hubVars, posVars, snapVars>>
notSampleVars == <<adaptVars, aoiVars, hitVars, unix_time, achVars, gazeVars, wsVars, sseVars, hubVars, posVars, snapVars>>
notPosVars == <<adaptVars, aoiVars, hitVars, unix_time, achVars, sessionVars, calibVars, gazeVars, wsVars, sseVars, hubVars, vocabVars, snapVars>>
notSnapVars == <<adaptVars, aoiVars, hitVars, unix_time, achVars, sessionVars, calibVars, gazeVars, wsVars, sseVars, hubVars, vocabVars, posVars>>
notSnapSampleVars == <<adaptVars, aoiVars, hitVars, unix_time, achVars, gazeVars, wsVars, sseVars, hubVars, vocabVars, posVars>>

(***************************************************************************)
(* Strings as tuples of characters, for the substring test of              *)
(* _is_difficult_word.                                                     *)
(***************************************************************************)
UpperToLower ==
    [A |-> "a", B |-> "b", C |-> "c", D |-> "d", E |-> "e", F |-> "f", G |-> "g",
     H |-> "h", I |-> "i", J |-> "j", K |-> "k", L |-> "l", M |-> "m", N |-> "n",
     O |-> "o", P |-> "p", Q |-> "q", R |-> "r", S |-> "s", T |-> "t", U |-> "u",
     V |-> "v", W |-> "w", X |-> "x", Y |-> "y", Z |-> "z"]

LowerChar(c) == IF c \in DOMAIN UpperToLower THEN UpperToLower[c] ELSE c

Lower(str) == [i \in 1..Len(str) |-> LowerChar(str[i])]

IsSubstring(w, str) ==
    \E i \in 1..(Len(str) - Len(w) + 1) : SubSeq(str, i, i + Len(w) - 1) = w

difficult_words ==
    << <<"s","o","p","h","i","s","t","i","c","a","t","e","d">>,
       <<"c","o","m","p","r","e","h","e","n","s","i","o","n">>,
       <<"a","r","t","i","c","u","l","a","t","e">>,
       <<"e","n","d","e","a","v","o","r">> >>

\* The AOI ids events carry, spelled out.
AoiIdChars ==
    [biodiversity |-> <<"b","i","o","d","i","v","e","r","s","i","t","y">>,
     Endeavor_1   |-> <<"E","n","d","e","a","v","o","r","_","1">>]

EventAoiIds == DOMAIN AoiIdChars

is_difficult_wordShortList(aoi_id) ==
    IsSubstring(difficult_words[1], Lower(AoiIdChars[aoi_id]))

is_difficult_word(aoi_id) ==
    \E k \in 1..Len(difficult_words) :
        IsSubstring(difficult_words[k], Lower(AoiIdChars[aoi_id]))

is_complex_sentence(event_data) == event_data.duration_ms > 2000

(***************************************************************************)
(* The rule table                                                          *)
(***************************************************************************)
vocab_rule ==
    [rule_id |-> "vocabulary_assistance", event_type |-> "fixation",
     min_duration_ms |-> 1500, type |-> "vocabularyCard"]

grammar_rule ==
    [rule_id |-> "grammar_assistance", event_type |-> "fixation",
     min_duration_ms |-> 2000, type |-> "grammarPopup"]

hint_rule ==
    [rule_id |-> "general_hint", event_type |-> "fixation",
     min_duration_ms |-> 3000, type |-> "showHint"]

rules == <<vocab_rule, grammar_rule, hint_rule>>

evaluate(rule, event_data) ==
    IF event_data.event_type # rule.event_type THEN FALSE
    ELSE IF event_data.duration_ms < rule.min_duration_ms THEN FALSE
    ELSE TRUE

create_command(rule, session_id, now, word_id) ==
    [type |-> rule.type, word_id |-> word_id, timestamp |-> now,
     session_id |-> session_id]

\* The body of the rule loop for one rule: the commands it appends.
RuleCommands(rule, event_data, now) ==
    IF ~evaluate(rule, event_data) THEN <<>>
    ELSE IF rule.rule_id = "vocabulary_assistance" THEN
        IF event_data.aoi_id # NoAoi /\ is_difficult_word(event_data.aoi_id)
        THEN <<create_command(rule, event_data.session_id, now, event_data.aoi_id)>>
        ELSE <<>>
    ELSE IF rule.rule_id = "grammar_assistance" THEN
        IF is_complex_sentence(event_data)
        THEN <<create_command(rule, event_data.session_id, now, NoAoi)>>
        ELSE <<>>
    ELSE <<create_command(rule, event_data.session_id, now, NoAoi)>>

RECURSIVE EvaluateRules(_, _, _)
EvaluateRules(rs, event_data, now) ==
    IF rs = <<>> THEN <<>>
    ELSE RuleCommands(Head(rs), event_data, now)
             \o EvaluateRules(Tail(rs), event_data, now)

Timestamps(commands) == [i \in 1..Len(commands) |-> commands[i].timestamp]

FeedbackRateLimitMs == 5000

RateLimitedTooShort(state, current_time) ==
    current_time - state.last_feedback_time < 4000

RateLimited(state, current_time) ==
    current_time - state.last_feedback_time < FeedbackRateLimitMs

NewSessionState ==
    [registered |-> TRUE, last_feedback_time |-> 0, feedback_count |-> 0,
     fixation_history_len |-> 0]

FixationHistoryKeep == 10

\* fixation_history is only ever appended to and cut to its last 10 entries;
\* nothing reads its entries, so the model keeps its length.
TrackFixation(state, event_data) ==
    IF event_data.event_type = "fixation"
    THEN [state EXCEPT !.fixation_history_len =
              IF @ + 1 > FixationHistoryKeep THEN FixationHistoryKeep ELSE @ + 1]
    ELSE state

\* _send_feedback followed by the state update, for each command in order.
\* acc = [conn, state, sent]: the session's connection, state and frames sent.
RECURSIVE SendLoop(_, _, _)
SendLoop(commands, now, acc) ==
    IF commands = <<>> THEN acc
    ELSE
        LET afterSend ==
                IF acc.conn = NotConnected THEN acc
                ELSE IF acc.conn = "closed"
                     THEN [acc EXCEPT !.conn = NotConnected, !.state = NoState]
                     ELSE [acc EXCEPT !.sent = @ + 1]
            afterUpdate ==
                IF afterSend.state # NoState
                THEN [afterSend EXCEPT !.state.last_feedback_time = now,
                                       !.state.feedback_count = @ + 1]
                ELSE afterSend
        IN SendLoop(Tail(commands), now, afterUpdate)

(***************************************************************************)
(* Engine operations                                                       *)
(***************************************************************************)
Durations == {1499, 1500, 2000, 3000}

\* event_data as gaze_websocket builds it: session_id, event_type, duration_ms,
\* aoi_id.  Saccades and events without a session id match no path that reads
\* the other fields, so one of each (per session) is enough.
Events ==
    [session_id : Sessions, event_type : {"fixation"}, duration_ms : Durations,
     aoi_id : EventAoiIds \cup {NoAoi}]
    \cup [session_id : Sessions, event_type : {"saccade"}, duration_ms : {3000},
          aoi_id : {NoAoi}]
    \cup [session_id : {NoSession}, event_type : {"fixation"},
          duration_ms : {3000}, aoi_id : {NoAoi}]

AdaptInit ==
    /\ clock = StartTime
    /\ session_states = [s \in Sessions |-> NoState]
    /\ websocket_connections = [s \in Sessions |-> NotConnected]
    /\ sent = [s \in Sessions |-> 0]
    /\ emitted = [s \in Sessions |-> <<>>]
    /\ returned = <<>>
    /\ last_call = "none"
    /\ n_events = 0

Tick(d) ==
    /\ clock + d <= MaxTime
    /\ clock' = clock + d
    /\ UNCHANGED <<session_states, websocket_connections, sent, emitted,
                   returned, last_call, n_events>>
    /\ UNCHANGED notAdaptVars

register_websocket(s) ==
    /\ websocket_connections' = [websocket_connections EXCEPT ![s] = "open"]
    /\ session_states' = [session_states EXCEPT ![s] = NewSessionState]
    /\ UNCHANGED <<clock, sent, emitted, returned, last_call, n_events>>
    /\ UNCHANGED notAdaptVars

unregister_websocket(s) ==
    /\ websocket_connections[s] # NotConnected \/ session_states[s] # NoState
    /\ websocket_connections' = [websocket_connections EXCEPT ![s] = NotConnected]
    /\ session_states' = [session_states EXCEPT ![s] = NoState]
    /\ UNCHANGED <<clock, sent, emitted, returned, last_call, n_events>>
    /\ UNCHANGED notAdaptVars

\* The peer of a registered socket goes away: send_text on it raises from now on.
socket_closed(s) ==
    /\ websocket_connections[s] = "open"
    /\ websocket_connections' = [websocket_connections EXCEPT ![s] = "closed"]
    /\ UNCHANGED <<clock, session_states, sent, emitted, returned, last_call,
                   n_events>>
    /\ UNCHANGED notAdaptVars

process_event(event_data) ==
    /\ n_events < MaxEvents
    /\ n_events' = n_events + 1
    /\ UNCHANGED clock
    /\ UNCHANGED notAdaptVars
    /\ IF event_data.session_id = NoSession THEN
          /\ returned' = <<>>
          /\ last_call' = "no_session"
          /\ UNCHANGED <<session_states, websocket_connections, sent, emitted>>
       ELSE
          LET s == event_data.session_id
              state == session_states[s]
          IN IF state # NoState /\ RateLimited(state, clock) THEN
                /\ returned' = <<>>
                /\ last_call' = "rate_limited"
                /\ UNCHANGED <<session_states, websocket_connections, sent, emitted>>
             ELSE
                LET tracked == IF state # NoState
                               THEN TrackFixation(state, event_data) ELSE state
                    commands == EvaluateRules(rules, event_data, clock)
                    out == SendLoop(commands, clock,
                                    [conn |-> websocket_connections[s],
                                     state |-> tracked, sent |-> sent[s]])
                IN /\ returned' = commands
                   /\ emitted' = [emitted EXCEPT ![s] = @ \o Timestamps(commands)]
                   /\ session_states' = [session_states EXCEPT ![s] = out.state]
                   /\ websocket_connections' =
                          [websocket_connections EXCEPT ![s] = out.conn]
                   /\ sent' = [sent EXCEPT ![s] = out.sent]
                   /\ last_call' = "evaluated"

AdaptNext ==
    \/ \E d \in ClockSteps : Tick(d)
    \/ \E s \in Sessions : register_websocket(s)
    \/ \E s \in Sessions : unregister_websocket(s)
    \/ \E s \in Sessions : socket_closed(s)
    \/ \E e \in Events : process_event(e)


(***************************************************************************)
(* AOICollection                                                           *)
(*                                                                         *)
(* An AOI is the record of the AOIElement fields that containment and      *)
(* tiering read: id, x, y, width, height, vocabulary_word.                 *)
(***************************************************************************)
AoiIds == {"a", "b"}
NoElement == [id |-> "none"]    \* None

\* Two adjacent boxes sharing the edge x = 2, and one overlapping both.
AoiBoxes ==
    {[x |-> 0, y |-> 0, width |-> 2, height |-> 2],
     [x |-> 2, y |-> 0, width |-> 2, height |-> 2],
     [x |-> 1, y |-> 1, width |-> 2, height |-> 1]}

Aois ==
    {[id |-> i, x |-> b.x, y |-> b.y, width |-> b.width, height |-> b.height,
      vocabulary_word |-> v] : i \in AoiIds, b \in AoiBoxes, v \in BOOLEAN}

Points == (0..4) \X (0..2)

contains_pointHalfOpen(aoi, x, y) ==
    /\ aoi.x <= x /\ x < aoi.x + aoi.width
    /\ aoi.y <= y /\ y < aoi.y + aoi.height

contains_point(aoi, x, y) ==
    /\ aoi.x <= x /\ x <= aoi.x + aoi.width
    /\ aoi.y <= y /\ y <= aoi.y + aoi.height

\* Position of the first TRUE of a sequence of booleans, or 0.
FirstTrue(flags) ==
    IF \E i \in 1..Len(flags) : flags[i]
    THEN CHOOSE i \in 1..Len(flags) : flags[i] /\ \A j \in 1..(i - 1) : ~flags[j]
    ELSE 0

LastContaining(list, x, y) ==
    LET In(a) == contains_point(a, x, y)
    IN IF \E i \in 1..Len(list) : In(list[i])
       THEN list[CHOOSE i \in 1..Len(list) :
                In(list[i]) /\ \A j \in (i + 1)..Len(list) : ~In(list[j])]
       ELSE NoElement

\* `for aoi in list: if aoi.contains_point(x, y): return aoi`
FirstContaining(list, x, y) ==
    LET i == FirstTrue([k \in 1..Len(list) |-> contains_point(list[k], x, y)])
    IN IF i = 0 THEN NoElement ELSE list[i]

find_hitContentFirst(x, y) ==
    LET c == FirstContaining(content_areas, x, y)
    IN IF c # NoElement THEN c ELSE FirstContaining(vocabulary_words, x, y)

find_hit(x, y) ==
    LET v == FirstContaining(vocabulary_words, x, y)
    IN IF v # NoElement THEN v ELSE FirstContaining(content_areas, x, y)

\* `if removed in list: list.remove(removed)`: drops the first equal entry.
ListRemove(list, removed) ==
    LET i == FirstTrue([k \in 1..Len(list) |-> list[k] = removed])
    IN IF i = 0 THEN list
       ELSE SubSeq(list, 1, i - 1) \o SubSeq(list, i + 1, Len(list))

AoiInit ==
    /\ elements = [i \in AoiIds |-> NoElement]
    /\ vocabulary_words = <<>>
    /\ content_areas = <<>>

add_element(aoi) ==
    /\ Len(vocabulary_words) + Len(content_areas) < MaxAois
    /\ UNCHANGED notAoiVars
    /\ elements' = [elements EXCEPT ![aoi.id] = aoi]
    /\ IF aoi.vocabulary_word
       THEN /\ vocabulary_words' = Append(vocabulary_words, aoi)
            /\ UNCHANGED content_areas
       ELSE /\ content_areas' = Append(content_areas, aoi)
            /\ UNCHANGED vocabulary_words

remove_element(aoi_id) ==
    /\ UNCHANGED notAoiVars
    /\ IF elements[aoi_id] # NoElement
       THEN LET removed == elements[aoi_id]
            IN /\ elements' = [elements EXCEPT ![aoi_id] = NoElement]
               /\ vocabulary_words' = ListRemove(vocabulary_words, removed)
               /\ content_areas' = ListRemove(content_areas, removed)
       ELSE UNCHANGED aoiVars

AoiNext ==
    \/ \E aoi \in Aois : add_element(aoi)
    \/ \E aoi_id \in AoiIds : remove_element(aoi_id)

(***************************************************************************)
(* HitLogManager                                                           *)
(*                                                                         *)
(* One manager is one session's hit log.  Timestamps are in ms (the source *)
(* keeps seconds as floats: 0.2 s is 200).                                 *)
(***************************************************************************)
session_id == "s1"              \* HitLogManager(session_id)
NoFixation == [tracking |-> FALSE]
MinFixationMs == 200

GazeTimestamps == {0, 199, 200}

\* The AOIs fixations are tracked on in this model (direct hits use every id).
FixationAoiIds == {"a"}

\* gaze_point: its timestamp.  The positions and confidences end_fixation
\* averages into the entry are left out, of the points and of the entries.
GazePoints == [timestamp : GazeTimestamps]

\* A HitLog as its creator hands it to add_hit: sequence_number 0 (the default).
NewHitLogs ==
    [gaze_timestamp : {0, 200}, aoi_id : AoiIds, hit_type : {"2d"},
     fixation_duration : {0}, session_id : {NoSession},
     sequence_number : {0}]

\* The entry add_hit appends: sequence number and session id set.
NumberedNotAssigned(hit_log, counter) ==
    [hit_log EXCEPT !.session_id = IF session_id # NoSession
                                   THEN session_id ELSE @]

Numbered(hit_log, counter) ==
    [hit_log EXCEPT !.sequence_number = counter,
                    !.session_id = IF session_id # NoSession
                                   THEN session_id ELSE @]

HitInit ==
    /\ hits = <<>>
    /\ current_fixations = [i \in AoiIds |-> NoFixation]
    /\ sequence_counter = 0

add_hit(hit_log) ==
    /\ Len(hits) < MaxHits
    /\ sequence_counter' = sequence_counter + 1
    /\ hits' = Append(hits, Numbered(hit_log, sequence_counter + 1))
    /\ UNCHANGED current_fixations
    /\ UNCHANGED notHitVars

start_fixation(aoi_id, gaze_point) ==
    /\ current_fixations' =
           [current_fixations EXCEPT ![aoi_id] =
               [tracking |-> TRUE, start_time |-> gaze_point.timestamp,
                gaze_points |-> <<gaze_point>>]]
    /\ UNCHANGED <<hits, sequence_counter>>
    /\ UNCHANGED notHitVars

update_fixation(aoi_id, gaze_point) ==
    /\ IF current_fixations[aoi_id] # NoFixation
       THEN /\ Len(current_fixations[aoi_id].gaze_points) < MaxGazePoints
            /\ current_fixations' =
                   [current_fixations EXCEPT ![aoi_id].gaze_points =
                       Append(@, gaze_point)]
       ELSE UNCHANGED current_fixations
    /\ UNCHANGED <<hits, sequence_counter>>
    /\ UNCHANGED notHitVars

end_fixation(aoi_id, final_gaze_point) ==
    /\ UNCHANGED notHitVars
    /\ IF current_fixations[aoi_id] = NoFixation
       THEN UNCHANGED hitVars
       ELSE LET fixation_data == current_fixations[aoi_id]
                duration == final_gaze_point.timestamp - fixation_data.start_time
                hit_log ==
                    [gaze_timestamp |-> fixation_data.start_time,
                     aoi_id |-> aoi_id, hit_type |-> "fixation",
                     fixation_duration |-> duration, session_id |-> session_id,
                     sequence_number |-> 0]
            IN /\ current_fixations' =
                      [current_fixations EXCEPT ![aoi_id] = NoFixation]
               /\ IF duration < MinFixationMs
                  THEN UNCHANGED <<hits, sequence_counter>>
                  ELSE /\ Len(hits) < MaxHits
                       /\ sequence_counter' = sequence_counter + 1
                       /\ hits' = Append(hits, Numbered(hit_log, sequence_counter + 1))

HitNext ==
    \/ \E h \in NewHitLogs : add_hit(h)
    \/ \E i \in FixationAoiIds, g \in GazePoints : start_fixation(i, g)
    \/ \E i \in FixationAoiIds, g \in GazePoints : update_fixation(i, g)
    \/ \E i \in FixationAoiIds, g \in GazePoints : end_fixation(i, g)

(***************************************************************************)
(* Wall clock of the backend process: time.time(), in whole seconds.       *)
(***************************************************************************)
TimePasses ==
    /\ unix_time < MaxNow
    /\ unix_time' = unix_time + 1
    /\ UNCHANGED <<adaptVars, aoiVars, hitVars, achVars, sessionVars, calibVars, gazeVars, wsVars, sseVars, hubVars, vocabVars, posVars, snapVars>>

(***************************************************************************)
(* Achievement and AchievementManager                                      *)
(*                                                                         *)
(* An achievement is the record of the fields update_progress reads and    *)
(* writes: target_value, current_value, unlocked, unlocked_at.  A manager  *)
(* is the record of its achievements dict and its recent_unlocks list     *)
(* (the list holds references to the achievements: their ids).             *)
(***************************************************************************)
NoTime == -1                    \* unlocked_at is None

vocab_achievement_ids ==
    <<"first_word", "vocab_explorer", "vocab_master", "vocab_genius">>

focus_achievement_ids == <<"focused_reader", "deep_focus", "laser_focus">>

AchievementTargets ==
    [first_word |-> 1, vocab_explorer |-> 5, vocab_master |-> 10,
     vocab_genius |-> 20, focused_reader |-> 120, deep_focus |-> 300,
     laser_focus |-> 600, speed_reader |-> 100, comprehension_king |-> 90,
     session_complete |-> 1]

AchievementIds == DOMAIN AchievementTargets

NewAchievement(target) ==
    [target_value |-> target, current_value |-> 0, unlocked |-> FALSE,
     unlocked_at |-> NoTime]

\* AchievementManager(session_id) after __init__.
NewAchievementManager ==
    [achievements |-> [i \in AchievementIds |-> NewAchievement(AchievementTargets[i])],
     recent_unlocks |-> <<>>]

ShouldUnlockAgain(achievement) ==
    achievement.current_value >= achievement.target_value

\* `not self.unlocked and self.current_value >= self.target_value`, read
\* after current_value has been assigned.
ShouldUnlock(achievement) ==
    ~achievement.unlocked /\ achievement.current_value >= achievement.target_value

\* Achievement.update_progress: the achievement afterwards and the return
\* value.
update_progress(achievement, new_value, t) ==
    LET stored == [achievement EXCEPT !.current_value = new_value]
    IN IF ShouldUnlock(stored)
       THEN [achievement |-> [stored EXCEPT !.unlocked = TRUE, !.unlocked_at = t],
             just_unlocked |-> TRUE]
       ELSE [achievement |-> stored, just_unlocked |-> FALSE]

UpdateOneReportingUnlocked(acc, achievement_id, value, t) ==
    LET r == update_progress(acc.manager.achievements[achievement_id], value, t)
        stored == [acc.manager EXCEPT !.achievements[achievement_id] = r.achievement]
    IN IF r.achievement.unlocked
       THEN [manager |-> [stored EXCEPT !.recent_unlocks = Append(@, achievement_id)],
             newly_unlocked |-> Append(acc.newly_unlocked, achievement_id)]
       ELSE [manager |-> stored, newly_unlocked |-> acc.newly_unlocked]

\* One `achievement.update_progress(value)` of a manager method with what the
\* method does on a True return.  acc = [manager, newly_unlocked].
UpdateOne(acc, achievement_id, value, t) ==
    LET r == update_progress(acc.manager.achievements[achievement_id], value, t)
        stored == [acc.manager EXCEPT !.achievements[achievement_id] = r.achievement]
    IN IF r.just_unlocked
       THEN [manager |-> [stored EXCEPT !.recent_unlocks = Append(@, achievement_id)],
             newly_unlocked |-> Append(acc.newly_unlocked, achievement_id)]
       ELSE [manager |-> stored, newly_unlocked |-> acc.newly_unlocked]

\* `for achievement_id in ids:` over UpdateOne.
RECURSIVE UpdateEach(_, _, _, _)
UpdateEach(acc, ids, value, t) ==
    IF ids = <<>> THEN acc
    ELSE UpdateEach(UpdateOne(acc, Head(ids), value, t), Tail(ids), value, t)

\* The three manager methods: [manager, newly_unlocked] afterwards.
VocabularyProgress(manager, vocabulary_count, t) ==
    UpdateEach([manager |-> manager, newly_unlocked |-> <<>>],
               vocab_achievement_ids, vocabulary_count, t)

FocusProgress(manager, session_duration_seconds, t) ==
    UpdateEach([manager |-> manager, newly_unlocked |-> <<>>],
               focus_achievement_ids, session_duration_seconds, t)

ReadingCompletionPercent == 90

ReadingProgress(manager, words_per_minute, completion_percentage, t) ==
    LET speed == UpdateOne([manager |-> manager, newly_unlocked |-> <<>>],
                           "speed_reader", words_per_minute, t)
    IN IF completion_percentage >= ReadingCompletionPercent
       THEN UpdateOne(speed, "session_complete", 1, t)
       ELSE speed

VocabularyCounts == {0, 1, 5}
SessionDurations == {119, 120, 300}
WordsPerMinute == {99, 100}
CompletionPercentages == {89, 90}

\* The manager the achievement operations act on.
ThisManager == [achievements |-> achievements, recent_unlocks |-> recent_unlocks]

AchInit ==
    /\ achievements = NewAchievementManager.achievements
    /\ recent_unlocks = NewAchievementManager.recent_unlocks
    /\ newly_unlocked = <<>>
    /\ reported = <<>>
    /\ n_updates = 0

\* Each manager method is one step: the manager afterwards, the return value
\* and the record of all return values so far.
update_vocabulary_progress(vocabulary_count) ==
    LET r == VocabularyProgress(ThisManager, vocabulary_count, unix_time)
    IN /\ n_updates < MaxUpdates
       /\ n_updates' = n_updates + 1
       /\ achievements' = r.manager.achievements
       /\ recent_unlocks' = r.manager.recent_unlocks
       /\ newly_unlocked' = r.newly_unlocked
       /\ reported' = reported \o r.newly_unlocked
       /\ UNCHANGED notAchVars

update_focus_progress(session_duration_seconds) ==
    LET r == FocusProgress(ThisManager, session_duration_seconds, unix_time)
    IN /\ n_updates < MaxUpdates
       /\ n_updates' = n_updates + 1
       /\ achievements' = r.manager.achievements
       /\ recent_unlocks' = r.manager.recent_unlocks
       /\ newly_unlocked' = r.newly_unlocked
       /\ reported' = reported \o r.newly_unlocked
       /\ UNCHANGED notAchVars

update_reading_progress(words_per_minute, completion_percentage) ==
    LET r == ReadingProgress(ThisManager, words_per_minute,
                             completion_percentage, unix_time)
    IN /\ n_updates < MaxUpdates
       /\ n_updates' = n_updates + 1
       /\ achievements' = r.manager.achievements
       /\ recent_unlocks' = r.manager.recent_unlocks
       /\ newly_unlocked' = r.newly_unlocked
       /\ reported' = reported \o r.newly_unlocked
       /\ UNCHANGED notAchVars

AchNext ==
    \/ TimePasses
    \/ \E c \in VocabularyCounts : update_vocabulary_progress(c)
    \/ \E d \in SessionDurations : update_focus_progress(d)
    \/ \E w \in WordsPerMinute, p \in CompletionPercentages :
           update_reading_progress(w, p)

(***************************************************************************)
(* GazeDataManager: streaming sessions                                     *)
(*                                                                         *)
(* The HTTP handlers of app.py run one at a time on the event loop; each   *)
(* is one step.  The Sol SDK is not part of the repository, so             *)
(* SOL_SDK_AVAILABLE is False and sessions stream from mock_worker         *)
(* threads.  A worker takes two steps per round: the test of its `while`   *)
(* and the processing of one sample; handlers and other workers run        *)
(* between them.  Of a sample the model keeps its 2D position; of the      *)
(* display state it keeps current_gaze and vocabulary_discoveries (the     *)
(* trail, the recent hits and the cognitive load are left out).            *)
(***************************************************************************)
StreamIds == {"s1", "s2"}       \* the sessionId of a request
WorkerIds == {1, 2}             \* the mock_worker threads a behaviour starts
NoManager == [created |-> FALSE]    \* None

\* HitLogManager(session_id) after __init__, as far as add_hit goes.
NewHitLogManager(sid) ==
    [created |-> TRUE, session_id |-> sid, hits |-> <<>>, sequence_counter |-> 0]

\* HitLogManager.add_hit on the manager's hit log.
AddHit(manager, hit_log) ==
    [manager EXCEPT
        !.sequence_counter = @ + 1,
        !.hits = Append(@, [hit_log EXCEPT
                               !.sequence_number = manager.sequence_counter + 1,
                               !.session_id = manager.session_id])]

\* The AOIs of create_standard_lesson_aois (center 756, 491) a mock gaze can
\* reach, in the order they are added: two vocabulary words, and main_text
\* before the lesson_content that encloses it.
StandardVocabularyWords ==
    <<[id |-> "biodiversity", text |-> "biodiversity", x |-> 556, y |-> 391,
       width |-> 100, height |-> 20, vocabulary_word |-> TRUE],
      [id |-> "artificial", text |-> "artificial", x |-> 556, y |-> 491,
       width |-> 80, height |-> 20, vocabulary_word |-> TRUE]>>

StandardContentAreas ==
    <<[id |-> "main_text", text |-> "Main reading content", x |-> 506, y |-> 466,
       width |-> 500, height |-> 50, vocabulary_word |-> FALSE],
      [id |-> "lesson_content", text |-> "Lesson area", x |-> 456, y |-> 341,
       width |-> 600, height |-> 300, vocabulary_word |-> FALSE]>>

\* aoi_collection.find_hit on the manager's collection.
FindStandardHit(x, y) ==
    LET v == FirstContaining(StandardVocabularyWords, x, y)
    IN IF v # NoElement THEN v ELSE FirstContaining(StandardContentAreas, x, y)

\* The gaze of a mock sample, 400 + uniform(-200, 200) on each axis: on
\* biodiversity, on main_text alone, and outside every AOI.
NoGaze == [gaze_valid |-> 0]    \* current_gaze is None
MockGazes ==
    {[gaze_valid |-> 1, gaze_pos_x |-> 580, gaze_pos_y |-> 400],
     [gaze_valid |-> 1, gaze_pos_x |-> 520, gaze_pos_y |-> 480],
     [gaze_valid |-> 1, gaze_pos_x |-> 300, gaze_pos_y |-> 300]}

VocabularyDiscoveriesKeep == 10

InSeq(x, list) == \E k \in 1..Len(list) : list[k] = x

SessionInit ==
    /\ is_streaming = FALSE
    /\ current_session_id = NoSession
    /\ session_start_time = NoTime
    /\ total_samples = 0
    /\ hit_log_manager = NoManager
    /\ achievement_manager = NoManager
    /\ vocabulary_discoveries = <<>>
    /\ workers = [w \in WorkerIds |-> "not_started"]
    /\ exports = <<>>
    /\ response = [status |-> "none", session_id |-> NoSession, path |-> "none"]
    /\ n_samples = 0

AlreadyStreamingThisSession(sid) == is_streaming /\ current_session_id = sid

\* `if self.is_streaming:` of start_streaming_session.
AlreadyStreaming(sid) == is_streaming

\* start_session of app.py: start_streaming_session and, without the SDK,
\* _start_mock_streaming.  Both return True.
start_session(sid) ==
    /\ response' = [status |-> "success", session_id |-> sid,
                    path |-> IF AlreadyStreaming(sid) THEN "already_streaming"
                                                      ELSE "started"]
    /\ IF AlreadyStreaming(sid)
       THEN UNCHANGED <<is_streaming, current_session_id, session_start_time,
                        total_samples, hit_log_manager, achievement_manager,
                        vocabulary_discoveries, workers, exports, n_samples>>
       ELSE /\ \E w \in WorkerIds :
                  /\ workers[w] = "not_started"
                  /\ \A v \in WorkerIds : v < w => workers[v] # "not_started"
                  /\ workers' = [workers EXCEPT ![w] = "while"]
            /\ current_session_id' = sid
            /\ session_start_time' = unix_time
            /\ hit_log_manager' = NewHitLogManager(sid)
            /\ achievement_manager' =
                   [created |-> TRUE,
                    achievements |-> NewAchievementManager.achievements,
                    recent_unlocks |-> NewAchievementManager.recent_unlocks]
            /\ total_samples' = 0
            /\ is_streaming' = TRUE
            /\ UNCHANGED <<vocabulary_discoveries, exports, n_samples>>
    /\ UNCHANGED notSessionVars

\* The file stop_streaming_session writes: the session id of its name and,
\* of _export_session_data, total_samples and the hit log's total_hits.
ExportFile ==
    [session_id |-> current_session_id,
     total_samples |-> total_samples,
     total_hits |-> Len(hit_log_manager.hits)]

NotStreamingNever == FALSE

\* `if not self.is_streaming: return None` of stop_streaming_session.
NotStreaming == ~is_streaming

\* stop_session of app.py with stop_streaming_session.  write_ok: whether
\* opening and writing the file succeeds.
stop_session(sid, write_ok) ==
    /\ UNCHANGED <<workers, n_samples, current_session_id, session_start_time,
                   total_samples, hit_log_manager, achievement_manager,
                   vocabulary_discoveries>>
    /\ IF sid = NoSession THEN
          /\ response' = [status |-> "error", session_id |-> NoSession,
                          path |-> "id_required"]
          /\ UNCHANGED <<is_streaming, exports>>
       ELSE IF NotStreaming THEN
          /\ response' = [status |-> "error", session_id |-> NoSession,
                          path |-> "not_streaming"]
          /\ UNCHANGED <<is_streaming, exports>>
       ELSE
          /\ is_streaming' = FALSE
          /\ IF hit_log_manager # NoManager /\ current_session_id # NoSession
                /\ write_ok
             THEN /\ exports' = Append(exports, ExportFile)
                  /\ response' = [status |-> "success", session_id |-> sid,
                                  path |-> "exported"]
             ELSE /\ UNCHANGED exports
                  /\ response' = [status |-> "error", session_id |-> NoSession,
                                  path |-> "export_failed"]
    /\ UNCHANGED notSessionVars

\* `while self.is_streaming:` of mock_worker.
worker_while(w) ==
    /\ workers[w] = "while"
    /\ workers' = [workers EXCEPT ![w] = IF is_streaming THEN "sample"
                                                          ELSE "returned"]
    /\ UNCHANGED <<is_streaming, current_session_id, session_start_time,
                   total_samples, hit_log_manager, achievement_manager,
                   vocabulary_discoveries, exports, response, n_samples>>
    /\ UNCHANGED notSessionVars

\* The vocabulary branch of _process_aoi_hits: [hit_log_manager,
\* achievement_manager, vocabulary_discoveries] afterwards.
VocabularyHit(hit_aoi) ==
    LET hit_log == [aoi_id |-> hit_aoi.id, session_id |-> current_session_id,
                    sequence_number |-> 0]
        appended == Append(vocabulary_discoveries, hit_aoi.text)
        kept == IF Len(appended) > VocabularyDiscoveriesKeep
                THEN Tail(appended) ELSE appended
        discovered == ~InSeq(hit_aoi.text, vocabulary_discoveries)
    IN [hit_log_manager |-> AddHit(hit_log_manager, hit_log),
        vocabulary_discoveries |->
            IF discovered THEN kept ELSE vocabulary_discoveries,
        achievement_manager |->
            IF discovered /\ achievement_manager # NoManager
            THEN LET r == VocabularyProgress(
                              [achievements |-> achievement_manager.achievements,
                               recent_unlocks |-> achievement_manager.recent_unlocks],
                              Len(kept), unix_time)
                 IN [created |-> TRUE,
                     achievements |-> r.manager.achievements,
                     recent_unlocks |-> r.manager.recent_unlocks]
            ELSE achievement_manager]

\* The body of mock_worker's loop: _process_gaze_sample_from_sdk on one mock
\* gaze, then the sleep.
worker_sample(w, gaze) ==
    /\ workers[w] = "sample"
    /\ current_gaze' = gaze
    /\ n_samples < MaxSamples
    /\ n_samples' = n_samples + 1
    /\ workers' = [workers EXCEPT ![w] = "while"]
    /\ total_samples' = total_samples + 1
    /\ LET hit_aoi == FindStandardHit(gaze.gaze_pos_x, gaze.gaze_pos_y)
       IN IF hit_aoi # NoElement /\ hit_log_manager # NoManager
             /\ hit_aoi.vocabulary_word
          THEN LET r == VocabularyHit(hit_aoi)
               IN /\ hit_log_manager' = r.hit_log_manager
                  /\ vocabulary_discoveries' = r.vocabulary_discoveries
                  /\ achievement_manager' = r.achievement_manager
          ELSE UNCHANGED <<hit_log_manager, vocabulary_discoveries,
                           achievement_manager>>
    /\ UNCHANGED <<is_streaming, current_session_id, session_start_time,
                   exports, response>>
    /\ UNCHANGED notManagerVars
    /\ UNCHANGED <<is_calibrating, calibration_points, calibration_transform,
                   calibration_result, n_captures>>

SessionNext ==
    \/ TimePasses
    \/ \E sid \in StreamIds : start_session(sid)
    \/ \E sid \in StreamIds \cup {NoSession}, write_ok \in BOOLEAN :
           stop_session(sid, write_ok)
    \/ \E w \in WorkerIds : worker_while(w)
    \/ \E w \in WorkerIds, gaze \in MockGazes : worker_sample(w, gaze)

(***************************************************************************)
(* GazeDataManager: calibration                                            *)
(*                                                                         *)
(* Numbers the code keeps as floats are integers here, and a quotient is   *)
(* the pair <<numerator, denominator>>.  Of a transform the model keeps    *)
(* the method, the number of points and the linear coefficients; the       *)
(* homography matrix and accuracy_px are left out.                         *)
(***************************************************************************)

\* _load_calibration without a calibration file.
DefaultTransform ==
    [calibrated |-> FALSE, method |-> "linear", points_used |-> 0,
     scale_x |-> <<1, 1>>, offset_x |-> <<0, 1>>,
     scale_y |-> <<1, 1>>, offset_y |-> <<0, 1>>]

\* _load_calibration with the file an earlier calibration saved.
LoadedTransform ==
    [calibrated |-> TRUE, method |-> "linear", points_used |-> 9,
     scale_x |-> <<1, 1>>, offset_x |-> <<0, 1>>,
     scale_y |-> <<1, 1>>, offset_y |-> <<0, 1>>]

MinCalibrationPoints == 4

\* What the frontend posts to capture_point: point_index, screen_x and
\* screen_y.  numeric: whether the two coordinates are JSON numbers (or null).
CalibrationTargets ==
    {[point_index |-> 0, screen_x |-> 100, screen_y |-> 100, numeric |-> TRUE],
     [point_index |-> 1, screen_x |-> 1820, screen_y |-> 980, numeric |-> TRUE],
     [point_index |-> 1, screen_x |-> 0, screen_y |-> 0, numeric |-> FALSE]}

SeqMax(vals) == CHOOSE v \in {vals[k] : k \in 1..Len(vals)} :
                    \A k \in 1..Len(vals) : vals[k] <= v

SeqMin(vals) == CHOOSE v \in {vals[k] : k \in 1..Len(vals)} :
                    \A k \in 1..Len(vals) : v <= vals[k]

RECURSIVE SeqSum(_)
SeqSum(vals) == IF vals = <<>> THEN 0 ELSE Head(vals) + SeqSum(Tail(vals))

\* A fit that maps a degenerate axis to the mean of the screen values.
AxisFitConstantOnDegenerate(gaze_vals, screen_vals) ==
    IF Cardinality({gaze_vals[k] : k \in 1..Len(gaze_vals)}) > 1
    THEN LET num == SeqMax(screen_vals) - SeqMin(screen_vals)
             den == SeqMax(gaze_vals) - SeqMin(gaze_vals)
         IN [scale |-> <<num, den>>,
             offset |-> <<SeqSum(screen_vals) * den - num * SeqSum(gaze_vals),
                          Len(screen_vals) * den>>]
    ELSE [scale |-> <<0, 1>>,
          offset |-> <<SeqSum(screen_vals), Len(screen_vals)>>]

\* Scale and offset of one axis: [scale, offset], screen = scale * gaze + offset.
AxisFit(gaze_vals, screen_vals) ==
    IF Cardinality({gaze_vals[k] : k \in 1..Len(gaze_vals)}) > 1
    THEN LET num == SeqMax(screen_vals) - SeqMin(screen_vals)
             den == SeqMax(gaze_vals) - SeqMin(gaze_vals)
         IN [scale |-> <<num, den>>,
             offset |-> <<SeqSum(screen_vals) * den - num * SeqSum(gaze_vals),
                          Len(screen_vals) * den>>]
    ELSE [scale |-> <<1, 1>>, offset |-> <<0, 1>>]

\* Quotients in lowest terms, so that the sums of squares below stay small.
RECURSIVE GCD(_, _)
GCD(a, b) == IF b = 0 THEN a ELSE GCD(b, a % b)
Abs(n) == IF n < 0 THEN -n ELSE n
Lowest(r) == LET g == GCD(Abs(r[1]), r[2]) IN <<r[1] \div g, r[2] \div g>>
RatAdd(a, b) == Lowest(<<a[1] * b[2] + b[1] * a[2], a[2] * b[2]>>)
RatSub(a, b) == Lowest(<<a[1] * b[2] - b[1] * a[2], a[2] * b[2]>>)
RatMul(a, b) == Lowest(<<a[1] * b[1], a[2] * b[2]>>)
RatEq(a, b) == a[1] * b[2] = b[1] * a[2]

\* (predicted_x - screen_x)**2 + (predicted_y - screen_y)**2 of one point:
\* the square of its `error`.
SquaredError(point, fx, fy) ==
    LET predicted_x == RatAdd(RatMul(<<point.gaze_x, 1>>, Lowest(fx.scale)),
                              Lowest(fx.offset))
        predicted_y == RatAdd(RatMul(<<point.gaze_y, 1>>, Lowest(fy.scale)),
                              Lowest(fy.offset))
        dx == RatSub(predicted_x, <<point.screen_x, 1>>)
        dy == RatSub(predicted_y, <<point.screen_y, 1>>)
    IN RatAdd(RatMul(dx, dx), RatMul(dy, dy))

\* The transform calculate_calibration_transform builds from the points.
\* Instead of accuracy_px, the mean of the points' errors, it holds the
\* squares of the errors: accuracy_px is 0 exactly when all of them are.
LinearTransform(points) ==
    LET fx == AxisFit([k \in 1..Len(points) |-> points[k].gaze_x],
                      [k \in 1..Len(points) |-> points[k].screen_x])
        fy == AxisFit([k \in 1..Len(points) |-> points[k].gaze_y],
                      [k \in 1..Len(points) |-> points[k].screen_y])
    IN [calibrated |-> TRUE, method |-> "linear", points_used |-> Len(points),
        scale_x |-> fx.scale, offset_x |-> fx.offset,
        scale_y |-> fy.scale, offset_y |-> fy.offset,
        errors_squared |->
            [k \in 1..Len(points) |-> SquaredError(points[k], fx, fy)]]

\* The arithmetic of the calculation raises on a coordinate that is not a
\* number.
CalculationRaises(points) == \E k \in 1..Len(points) : ~points[k].numeric

CalibInit ==
    /\ is_calibrating = FALSE
    /\ calibration_points = <<>>
    /\ calibration_transform = DefaultTransform
    /\ current_gaze = NoGaze
    /\ calibration_result = [success |-> FALSE, message |-> "none"]
    /\ n_captures = 0

start_calibration_process ==
    /\ is_calibrating' = TRUE
    /\ calibration_points' = <<>>
    /\ calibration_result' = [success |-> TRUE, message |-> "started"]
    /\ UNCHANGED <<calibration_transform, current_gaze, n_captures>>
    /\ UNCHANGED notCalibVars

CollectingOrPointsPresent == is_calibrating \/ calibration_points # <<>>

\* `if not self.is_calibrating: return False, None` passes.
Collecting == is_calibrating

\* `self.calibration_points.append(calibration_sample)`
PointsWith(points, sample) == Append(points, sample)

capture_calibration_point(target) ==
    /\ n_captures < MaxCaptures
    /\ n_captures' = n_captures + 1
    /\ UNCHANGED <<is_calibrating, calibration_transform, current_gaze>>
    /\ UNCHANGED notCalibVars
    /\ IF ~Collecting \/ current_gaze = NoGaze
       THEN /\ calibration_result' = [success |-> FALSE, message |-> "capture"]
            /\ UNCHANGED calibration_points
       ELSE /\ calibration_points' =
                   PointsWith(calibration_points,
                              [point_index |-> target.point_index,
                               screen_x |-> target.screen_x,
                               screen_y |-> target.screen_y,
                               numeric |-> target.numeric,
                               gaze_x |-> current_gaze.gaze_pos_x,
                               gaze_y |-> current_gaze.gaze_pos_y])
            /\ calibration_result' = [success |-> TRUE, message |-> "capture"]

EnoughPointsFromThree(points) == Len(points) >= 3

\* `if len(self.calibration_points) < 4:` does not return.
EnoughPoints(points) == Len(points) >= MinCalibrationPoints

\* calculate_calibration_transform past its test of the number of points:
\* [is_calibrating, calibration_transform, calibration_result] afterwards.
LinearCalculation(transform, points) ==
    IF CalculationRaises(points)
    THEN [is_calibrating |-> FALSE, calibration_transform |-> transform,
          calibration_result |->
              [success |-> FALSE, message |-> "Calibration calculation failed"]]
    ELSE [is_calibrating |-> FALSE,
          calibration_transform |-> LinearTransform(points),
          calibration_result |-> [success |-> TRUE, message |-> "linear"]]

calculate_calibration_transform ==
    /\ UNCHANGED <<calibration_points, current_gaze, n_captures>>
    /\ UNCHANGED notCalibVars
    /\ IF ~EnoughPoints(calibration_points)
       THEN /\ calibration_result' =
                   [success |-> FALSE, message |-> "Need at least 4 points"]
            /\ UNCHANGED <<is_calibrating, calibration_transform>>
       ELSE LET r == LinearCalculation(calibration_transform, calibration_points)
            IN /\ is_calibrating' = r.is_calibrating
               /\ calibration_transform' = r.calibration_transform
               /\ calibration_result' = r.calibration_result

\* calculate_homography_calibration_transform.  solved: whether the
\* homography is computed (numpy is installed and the solver returns a
\* matrix); otherwise the method falls back to the linear calculation.  The
\* camera intrinsics are the mock ones and never missing.
calculate_homography_calibration_transform(solved) ==
    /\ UNCHANGED <<calibration_points, current_gaze, n_captures>>
    /\ UNCHANGED notCalibVars
    /\ IF ~EnoughPoints(calibration_points)
       THEN /\ calibration_result' =
                   [success |-> FALSE,
                    message |-> "Need at least 4 points for homography"]
            /\ UNCHANGED <<is_calibrating, calibration_transform>>
       ELSE IF solved /\ ~CalculationRaises(calibration_points)
       THEN /\ calibration_transform' =
                   [calibrated |-> TRUE, method |-> "homography",
                    points_used |-> Len(calibration_points),
                    scale_x |-> <<1, 1>>, offset_x |-> <<0, 1>>,
                    scale_y |-> <<1, 1>>, offset_y |-> <<0, 1>>]
            /\ is_calibrating' = FALSE
            /\ calibration_result' = [success |-> TRUE, message |-> "homography"]
       ELSE LET r == LinearCalculation(calibration_transform, calibration_points)
            IN /\ is_calibrating' = r.is_calibrating
               /\ calibration_transform' = r.calibration_transform
               /\ calibration_result' = r.calibration_result

CalibNext ==
    \/ start_calibration_process
    \/ \E target \in CalibrationTargets : capture_calibration_point(target)
    \/ calculate_calibration_transform
    \/ \E solved \in BOOLEAN : calculate_homography_calibration_transform(solved)

(***************************************************************************)
(* GazePoint: from the SDK sample to calibrated screen coordinates         *)
(*                                                                         *)
(* A coordinate the code keeps as a float is the quotient                  *)
(* <<numerator, denominator>> with a positive denominator.  A transform    *)
(* is the dict the manager holds: a function on the keys that are present. *)
(***************************************************************************)
Rat(n, d) == IF d < 0 THEN <<-n, -d>> ELSE <<n, d>>
RatLeq(a, b) == a[1] * b[2] <= b[1] * a[2]
RatMin(a, b) == IF RatLeq(b, a) THEN b ELSE a
RatMax(a, b) == IF RatLeq(a, b) THEN b ELSE a
\* a * x + b for an integer x
RatLinear(a, x, b) == <<a[1] * x * b[2] + b[1] * a[2], a[2] * b[2]>>

NoCoordinate == <<0, 0>>        \* calibrated_x is None

\* transform.get(key, default)
Get(transform, key, default) ==
    IF key \in DOMAIN transform THEN transform[key] ELSE default

DefaultScreenWidth == 1920
DefaultScreenHeight == 1080

\* GazePoint.from_sol_sdk: the fields of the sample the processing reads.
from_sol_sdk(valid, x, y) ==
    [gaze_valid |-> valid, gaze_pos_x |-> x, gaze_pos_y |-> y,
     calibrated_x |-> NoCoordinate, calibrated_y |-> NoCoordinate]

\* GazePoint._apply_linear_transform
apply_linear_transform(point, transform) ==
    [point EXCEPT
        !.calibrated_x = RatLinear(Get(transform, "scale_x", <<1, 1>>),
                                   point.gaze_pos_x,
                                   Get(transform, "offset_x", <<0, 1>>)),
        !.calibrated_y = RatLinear(Get(transform, "scale_y", <<1, 1>>),
                                   point.gaze_pos_y,
                                   Get(transform, "offset_y", <<0, 1>>))]

\* Row k of H times the homogeneous gaze (x, y, 1).
HomogeneousRow(H, k, point) ==
    H[k][1] * point.gaze_pos_x + H[k][2] * point.gaze_pos_y + H[k][3]

\* GazePoint._apply_homography_transform.  raises: the try block raises
\* (numpy is missing or the matrix is malformed).
apply_homography_transform(point, transform, raises) ==
    LET H == transform["homography_matrix"]
        w == HomogeneousRow(H, 3, point)
    IN IF ~raises /\ w # 0
       THEN [point EXCEPT !.calibrated_x = Rat(HomogeneousRow(H, 1, point), w),
                          !.calibrated_y = Rat(HomogeneousRow(H, 2, point), w)]
       ELSE apply_linear_transform(point, transform)

\* `max(0, min(max_x, self.calibrated_x))`
Clamp(max_v, v) == RatMax(<<0, 1>>, RatMin(<<max_v, 1>>, v))

\* `if not transform.get("calibrated", False):` of apply_calibration_transform
Uncalibrated(point) ==
    [point EXCEPT !.calibrated_x = <<point.gaze_pos_x, 1>>,
                  !.calibrated_y = <<point.gaze_pos_y, 1>>]

\* GazePoint.apply_calibration_transform: the point afterwards.
CalibratedPoint(point, transform, raises) ==
    IF ~Get(transform, "calibrated", FALSE)
    THEN Uncalibrated(point)
    ELSE LET p == IF Get(transform, "method", "none") = "homography"
                     /\ "homography_matrix" \in DOMAIN transform
                  THEN apply_homography_transform(point, transform, raises)
                  ELSE apply_linear_transform(point, transform)
         IN [p EXCEPT
                !.calibrated_x =
                    Clamp(Get(transform, "screen_width", DefaultScreenWidth), @),
                !.calibrated_y =
                    Clamp(Get(transform, "screen_height", DefaultScreenHeight), @)]

\* Raw coordinates the glasses report: off the screen on either side, on its
\* edges and inside it.
RawXs == {-40, 0, 960, 1920, 2500}
RawYs == {-40, 0, 540, 1080, 1300}

\* Transforms the manager can hold: none loaded, the linear ones a
\* calibration computes or a file holds, and homographies.
SampleTransforms ==
    {[calibrated |-> FALSE, scale_x |-> <<1, 1>>, offset_x |-> <<0, 1>>,
      scale_y |-> <<1, 1>>, offset_y |-> <<0, 1>>],
     [calibrated |-> TRUE, method |-> "linear",
      scale_x |-> <<1, 1>>, offset_x |-> <<0, 1>>,
      scale_y |-> <<1, 1>>, offset_y |-> <<0, 1>>],
     [calibrated |-> TRUE, method |-> "linear",
      scale_x |-> <<3, 2>>, offset_x |-> <<-100, 1>>,
      scale_y |-> <<3, 2>>, offset_y |-> <<50, 3>>,
      screen_width |-> 1280, screen_height |-> 720],
     [calibrated |-> TRUE, method |-> "homography",
      homography_matrix |-> <<<<2, 0, -50>>, <<0, 2, -30>>, <<0, 0, 1>>>>,
      scale_x |-> <<1, 1>>, offset_x |-> <<0, 1>>,
      scale_y |-> <<1, 1>>, offset_y |-> <<0, 1>>],
     [calibrated |-> TRUE, method |-> "homography",
      homography_matrix |-> <<<<1, 0, 0>>, <<0, 1, 0>>, <<0, 0, 0>>>>,
      scale_x |-> <<2, 1>>, offset_x |-> <<10, 1>>,
      scale_y |-> <<2, 1>>, offset_y |-> <<10, 1>>]}

GazeInit ==
    /\ sample_point = from_sol_sdk(0, 0, 0)
    /\ sample_transform =
           [calibrated |-> FALSE, scale_x |-> <<1, 1>>, offset_x |-> <<0, 1>>,
            scale_y |-> <<1, 1>>, offset_y |-> <<0, 1>>]

\* A manager that holds any of the transforms receives an SDK sample.
GazeStart ==
    /\ sample_point \in {from_sol_sdk(valid, x, y) :
                             valid \in {0, 1}, x \in RawXs, y \in RawYs}
    /\ sample_transform \in SampleTransforms

\* The first two statements of _process_gaze_sample_from_sdk, on the sample
\* from_sol_sdk built.
apply_calibration_transform(raises) ==
    /\ sample_point.calibrated_x = NoCoordinate
    /\ sample_point' = CalibratedPoint(sample_point, sample_transform, raises)
    /\ UNCHANGED sample_transform
    /\ UNCHANGED notGazeVars

GazeNext == \E raises \in BOOLEAN : apply_calibration_transform(raises)

(***************************************************************************)
(* gaze_websocket of sol_main.py with ProcessingService and                *)
(* FixationDetector                                                        *)
(*                                                                         *)
(* One connected session.  The handler of a message runs in three steps,   *)
(* split where it awaits the database: receive_text (parse and buffer),    *)
(* bulk_insert_samples (the sink returns or raises) and                    *)
(* process_gaze_sample (event detection, the events handed to the rule     *)
(* engine, and the cut of the buffer).  Of a sample the model keeps        *)
(* timestamp, x, y and confidence (in percent); of an event its type and   *)
(* times (not the centroid, the mean confidence or the AOI).  The rule     *)
(* engine's own state is that of SpecAdapt.                                *)
(***************************************************************************)
NoSample == [timestamp |-> -1]

window_ms == 100
dispersion_threshold == 1       \* degrees
pixels_per_degree == 30
SampleBufferKeep == 50
ConfidenceThreshold == 80       \* percent
PersistBatchSize == 10
BufferKeep == 100

Last(list, n) == IF Len(list) > n
                 THEN SubSeq(list, Len(list) - n + 1, Len(list)) ELSE list

\* _calculate_dispersion(samples) <= self.dispersion_threshold, squared:
\* sqrt(x_range**2 + y_range**2) / pixels_per_degree <= threshold.
DispersionWithin(window_samples) ==
    LET xs == [k \in 1..Len(window_samples) |-> window_samples[k].x]
        ys == [k \in 1..Len(window_samples) |-> window_samples[k].y]
        x_range == SeqMax(xs) - SeqMin(xs)
        y_range == SeqMax(ys) - SeqMin(ys)
        limit == dispersion_threshold * pixels_per_degree
    IN Len(window_samples) < 2
       \/ x_range * x_range + y_range * y_range <= limit * limit

\* The inner loop of _detect_events: the index of the last sample of the
\* window that starts at samples[i], reached at j so far.
RECURSIVE WindowLast(_, _, _)
WindowLast(samples, i, j) ==
    IF j + 1 <= Len(samples)
       /\ samples[j + 1].timestamp - samples[i].timestamp <= window_ms
    THEN WindowLast(samples, i, j + 1)
    ELSE j

\* _create_fixation_event and _create_saccade_event
create_event(event_type, window_samples) ==
    [event_type |-> event_type,
     start_ts |-> window_samples[1].timestamp,
     end_ts |-> window_samples[Len(window_samples)].timestamp,
     duration_ms |-> window_samples[Len(window_samples)].timestamp
                         - window_samples[1].timestamp]

\* The outer loop of _detect_events from index i on.
RECURSIVE DetectFrom(_, _)
DetectFrom(samples, i) ==
    IF i > Len(samples) - 2 THEN <<>>
    ELSE LET window_samples == SubSeq(samples, i, WindowLast(samples, i, i))
         IN (IF Len(window_samples) >= 3
             THEN IF DispersionWithin(window_samples)
                  THEN <<create_event("fixation", window_samples)>>
                  ELSE <<create_event("saccade", window_samples)>>
             ELSE <<>>)
            \o DetectFrom(samples, i + 1)

detect_events(samples) ==
    IF Len(samples) < 3 THEN <<>> ELSE DetectFrom(samples, 1)

\* deque(maxlen=50).append
BufferAppend(buffer, sample) == Last(Append(buffer, sample), SampleBufferKeep)

\* A session has connected.  configured: the values USE_DATABASE can have
\* once startup is over.
WsStart(configured) ==
    /\ USE_DATABASE \in configured
    /\ gaze_data_buffer = <<>>
    /\ sample_count = 0
    /\ ws_pc = "receive"
    /\ sample_data = NoSample
    /\ device_time = 1000
    /\ sample_buffer = <<>>
    /\ detected = <<>>
    /\ handed = <<>>
    /\ persisted = {}
    /\ attempts = <<>>

WsInit == WsStart({FALSE})

\* `data = await websocket.receive_text()` up to the test of the batch size.
\* dt: how much later than the previous message's the timestamp is;
\* max_messages: the number of messages the session is followed over.
receive_text(dt, x, confidence, max_messages) ==
    /\ ws_pc = "receive"
    /\ sample_count < max_messages
    /\ device_time' = device_time + dt
    /\ sample_data' = [timestamp |-> device_time', x |-> x, y |-> 100,
                       confidence |-> confidence]
    /\ gaze_data_buffer' =
           Append(gaze_data_buffer,
                  [timestamp |-> device_time', sample_number |-> sample_count])
    /\ attempts' = Append(attempts, 0)
    /\ sample_count' = sample_count + 1
    /\ ws_pc' = IF USE_DATABASE /\ Len(gaze_data_buffer') >= PersistBatchSize
                THEN "bulk_insert" ELSE "process"
    /\ UNCHANGED <<USE_DATABASE, sample_buffer, detected, handed, persisted>>
    /\ UNCHANGED notWsVars

BufferedNumbers ==
    {gaze_data_buffer[k].sample_number : k \in 1..Len(gaze_data_buffer)}

\* `await sol_db.bulk_insert_samples(...)` returns ("ok"), raises before
\* anything is written ("raised"), or raises at the NOTIFY that follows the
\* COPY ("notify_raised").
SinkOutcomes == {"ok", "raised", "notify_raised"}

bulk_insert_samples(outcome) ==
    /\ ws_pc = "bulk_insert"
    /\ ws_pc' = "process"
    /\ persisted' = IF outcome = "raised" THEN persisted
                    ELSE persisted \cup BufferedNumbers
    /\ IF outcome = "ok"
       THEN /\ gaze_data_buffer' = <<>>
            /\ attempts' = <<>>
       ELSE /\ UNCHANGED gaze_data_buffer
            /\ attempts' = [k \in 1..Len(attempts) |-> attempts[k] + 1]
    /\ UNCHANGED <<USE_DATABASE, sample_count, sample_data, device_time,
                   sample_buffer, detected, handed>>
    /\ UNCHANGED notWsVars

\* ProcessingService.process_gaze_sample: the detector's buffer afterwards,
\* the events add_sample returned and the events the method returns.
\* insert_ok: database.insert_event does not raise.
ProcessSample(buffer, sample, insert_ok) ==
    IF sample.confidence < ConfidenceThreshold
    THEN [sample_buffer |-> buffer, events |-> <<>>, stored_events |-> <<>>]
    ELSE LET added == BufferAppend(buffer, [timestamp |-> sample.timestamp,
                                            x |-> sample.x, y |-> sample.y])
         IN [sample_buffer |-> added,
             events |-> detect_events(added),
             stored_events |-> IF insert_ok THEN detect_events(added) ELSE <<>>]

\* The rest of the handler: the processing service (the real one with a
\* database, a fresh MockProcessingService without), the events handed to
\* process_event, and the cut of the buffer to its last 100 samples.
process_gaze_sample(insert_ok) ==
    /\ ws_pc = "process"
    /\ ws_pc' = "receive"
    /\ LET r == IF USE_DATABASE
                THEN ProcessSample(sample_buffer, sample_data, insert_ok)
                ELSE [sample_buffer |-> sample_buffer, events |-> <<>>,
                      stored_events |-> <<>>]
       IN /\ sample_buffer' = r.sample_buffer
          /\ detected' = detected \o r.events
          /\ handed' = handed \o r.stored_events
    /\ gaze_data_buffer' = Last(gaze_data_buffer, BufferKeep)
    /\ attempts' = Last(attempts, BufferKeep)
    /\ sample_data' = NoSample
    /\ UNCHANGED <<USE_DATABASE, sample_count, device_time, persisted>>
    /\ UNCHANGED notWsVars

\* Messages of SpecDetect: 50 ms after the previous one or 50 ms before it,
\* on one spot or 300 px away from it, confident or not.
DetectNext ==
    \/ \E m \in {<<50, 100, 95>>, <<50, 400, 95>>, <<-50, 100, 95>>,
                 <<50, 100, 50>>} : receive_text(m[1], m[2], m[3], MaxStream)
    \/ \E insert_ok \in BOOLEAN : process_gaze_sample(insert_ok)

\* Messages of SpecIngest: a steady stream the detector does not look at.
IngestNext ==
    \/ receive_text(50, 100, 50, MaxReceived)
    \/ \E outcome \in SinkOutcomes : bulk_insert_samples(outcome)
    \/ \E insert_ok \in BOOLEAN : process_gaze_sample(insert_ok)

(***************************************************************************)
(* GET /api/gaze/stream (app.py).  Each request runs its own event_stream  *)
(* generator on the event loop; the model follows a generator from one     *)
(* await to the next: the disconnect test, the yield of a snapshot, and    *)
(* the sleep.  Of a snapshot the model keeps what it says of the session.  *)
(***************************************************************************)
Requests == {1, 2}              \* the /api/gaze/stream requests of a behaviour
NoData == [sent |-> FALSE]      \* nothing yielded so far

\* get_frontend_data, as far as the session goes.
get_frontend_data ==
    [sent |-> TRUE, is_streaming |-> is_streaming,
     session_id |-> current_session_id, connected |-> is_streaming]

SseInit ==
    /\ event_stream = [r \in Requests |-> "not_requested"]
    /\ disconnected = [r \in Requests |-> FALSE]
    /\ yielded = [r \in Requests |-> NoData]

\* stream_gaze_data: the StreamingResponse starts the generator.
stream_gaze_data(r) ==
    /\ event_stream[r] = "not_requested"
    /\ event_stream' = [event_stream EXCEPT ![r] = "is_disconnected"]
    /\ UNCHANGED <<disconnected, yielded>>
    /\ UNCHANGED notSseVars

\* The client of a request goes away.
client_disconnects(r) ==
    /\ event_stream[r] \notin {"not_requested", "returned"}
    /\ ~disconnected[r]
    /\ disconnected' = [disconnected EXCEPT ![r] = TRUE]
    /\ UNCHANGED <<event_stream, yielded>>
    /\ UNCHANGED notSseVars

\* `while True: if await request.is_disconnected(): break`.
is_disconnected(r) ==
    /\ event_stream[r] = "is_disconnected"
    /\ event_stream' = [event_stream EXCEPT
                           ![r] = IF disconnected[r] THEN "returned" ELSE "yield"]
    /\ UNCHANGED <<disconnected, yielded>>
    /\ UNCHANGED notSseVars

\* `data = gaze_manager.get_frontend_data()` and the yield of it.
yield_data(r) ==
    /\ event_stream[r] = "yield"
    /\ yielded' = [yielded EXCEPT ![r] = get_frontend_data]
    /\ event_stream' = [event_stream EXCEPT ![r] = "sleep"]
    /\ UNCHANGED disconnected
    /\ UNCHANGED notSseVars

\* `await asyncio.sleep(0.05)` returns and the loop starts over.
sleep(r) ==
    /\ event_stream[r] = "sleep"
    /\ event_stream' = [event_stream EXCEPT ![r] = "is_disconnected"]
    /\ UNCHANGED <<disconnected, yielded>>
    /\ UNCHANGED notSseVars

\* `except asyncio.CancelledError`: the server cancels the generator of a
\* client that went away while it is suspended at the yield or in the sleep.
CancelledError(r) ==
    /\ event_stream[r] \in {"yield", "sleep"}
    /\ disconnected[r]
    /\ event_stream' = [event_stream EXCEPT ![r] = "returned"]
    /\ UNCHANGED <<disconnected, yielded>>
    /\ UNCHANGED notSseVars

\* What the event loop does for the generator of a request once it runs.
event_stream_step(r) ==
    \/ is_disconnected(r)
    \/ yield_data(r)
    \/ sleep(r)

StreamNext ==
    \/ \E sid \in StreamIds : start_session(sid)
    \/ \E sid \in StreamIds \cup {NoSession}, write_ok \in BOOLEAN :
           stop_session(sid, write_ok)
    \/ \E r \in Requests : stream_gaze_data(r)
    \/ \E r \in Requests : client_disconnects(r)
    \/ \E r \in Requests : is_disconnected(r)
    \/ \E r \in Requests : yield_data(r)
    \/ \E r \in Requests : sleep(r)
    \/ \E r \in Requests : CancelledError(r)

(***************************************************************************)
(* gaze_websocket of sol_main.py: several connections                      *)
(*                                                                         *)
(* The module globals active_sessions and gaze_data_buffer, the adaptation *)
(* engine and the processing service are shared by every connection and    *)
(* keyed by the session id of the path.  A handler is followed in three    *)
(* steps: the accept with the registrations, one round of the receive      *)
(* loop, and the finally block.  The sink and insert_event do not fail     *)
(* here.  A sample is [session_id, conn, sample_number, arrival].          *)
(***************************************************************************)
Conns == {1, 2}                 \* the WebSocket connections of a behaviour
HubSessions == {"s1", "s2"}     \* the {session_id} of a path
NoConn == 0
NoBuffer == [present |-> FALSE] \* session_id not in gaze_data_buffer
NoLesson == "None"              \* active_sessions.get(session_id) is None
DefaultLesson == "default_lesson"
UnknownSession == "unknown"     \* sample_data.get('session_id', 'unknown')
MessageGap == 30                \* ms between two messages

HubInit ==
    /\ websockets = [c \in Conns |->
                        [state |-> "waiting", session_id |-> NoSession,
                         sample_count |-> 0]]
    /\ active_sessions = [s \in HubSessions |-> NoConn]
    /\ buffer_of = [s \in HubSessions |-> NoBuffer]
    /\ registrations = [s \in HubSessions |-> NoConn]
    /\ active_lessons = [s \in HubSessions |-> NoLesson]
    /\ detector = <<>>
    /\ sink = <<>>
    /\ arrived = <<>>
    /\ events_of = [s \in HubSessions |-> <<>>]
    /\ alone = [s \in HubSessions |-> [sample_buffer |-> <<>>, events |-> <<>>]]
    /\ inserted_events = {}
    /\ hub_time = 1000

\* gaze_websocket up to the receive loop: accept, the two globals,
\* register_websocket and start_session_processing (of the real service).
gaze_websocket_accept(c, sid) ==
    /\ websockets[c].state = "waiting"
    /\ websockets' = [websockets EXCEPT
                         ![c] = [state |-> "open", session_id |-> sid,
                                 sample_count |-> 0]]
    /\ active_sessions' = [active_sessions EXCEPT ![sid] = c]
    /\ buffer_of' = [buffer_of EXCEPT ![sid] = [present |-> TRUE, list |-> <<>>]]
    /\ registrations' = [registrations EXCEPT ![sid] = c]
    /\ active_lessons' = IF USE_DATABASE
                         THEN [active_lessons EXCEPT ![sid] = DefaultLesson]
                         ELSE active_lessons
    /\ UNCHANGED <<detector, sink, arrived, events_of, alone, inserted_events,
                   hub_time>>
    /\ UNCHANGED notHubVars

\* One round of the receive loop for a message that parses.
\* confidence: of the sample, in percent; names_session: the message has a
\* 'session_id' key (with the id of the path); max_messages: the number of
\* messages the connections are followed over.
gaze_websocket_message(c, confidence, names_session, max_messages) ==
    LET sid == websockets[c].session_id
        gaze_sample == [session_id |-> sid, conn |-> c,
                        sample_number |-> websockets[c].sample_count,
                        arrival |-> Len(arrived) + 1]
        message == [timestamp |-> hub_time + MessageGap, x |-> 100,
                        y |-> 100, confidence |-> confidence]
        sample_session == IF names_session THEN sid ELSE UnknownSession
        lesson_id == IF sample_session \in HubSessions
                     THEN active_lessons[sample_session] ELSE NoLesson
        appended == Append(buffer_of[sid].list, gaze_sample)
        flush == USE_DATABASE /\ Len(appended) >= PersistBatchSize
        r == IF USE_DATABASE THEN ProcessSample(detector, message, TRUE)
             ELSE [sample_buffer |-> detector, events |-> <<>>,
                   stored_events |-> <<>>]
        a == ProcessSample(alone[sid].sample_buffer, message, TRUE)
    IN /\ websockets[c].state = "open"
       /\ Len(arrived) < max_messages
       /\ hub_time' = hub_time + MessageGap
       /\ arrived' = Append(arrived, gaze_sample)
       /\ IF buffer_of[sid] = NoBuffer
          THEN \* KeyError at the append: `except Exception` logs it
               UNCHANGED <<websockets, buffer_of, sink, detector, events_of,
                           alone, inserted_events>>
          ELSE /\ websockets' = [websockets EXCEPT ![c].sample_count = @ + 1]
               /\ sink' = IF flush THEN sink \o appended ELSE sink
               /\ buffer_of' = [buffer_of EXCEPT
                                   ![sid].list = IF flush THEN <<>>
                                                 ELSE Last(appended, BufferKeep)]
               /\ detector' = r.sample_buffer
               /\ events_of' = [events_of EXCEPT ![sid] = @ \o r.stored_events]
               /\ alone' = [alone EXCEPT
                               ![sid] = [sample_buffer |-> a.sample_buffer,
                                         events |-> @.events \o a.stored_events]]
               /\ inserted_events' =
                      IF r.events = <<>> THEN inserted_events
                      ELSE inserted_events
                               \cup {[path |-> sid, session_id |-> sample_session,
                                      lesson_id |-> lesson_id]}
       /\ UNCHANGED <<active_sessions, registrations, active_lessons>>
       /\ UNCHANGED notHubVars

\* WebSocketDisconnect out of receive_text, and the finally block: the last
\* flush, end_session_processing, unregister_websocket and the two globals.
gaze_websocket_finally(c) ==
    LET sid == websockets[c].session_id
    IN /\ websockets[c].state = "open"
       /\ websockets' = [websockets EXCEPT ![c].state = "ended"]
       /\ sink' = IF USE_DATABASE /\ buffer_of[sid] # NoBuffer
                  THEN sink \o buffer_of[sid].list ELSE sink
       /\ active_lessons' = [active_lessons EXCEPT ![sid] = NoLesson]
       /\ registrations' = [registrations EXCEPT ![sid] = NoConn]
       /\ active_sessions' = [active_sessions EXCEPT ![sid] = NoConn]
       /\ buffer_of' = [buffer_of EXCEPT ![sid] = NoBuffer]
       /\ UNCHANGED <<detector, arrived, events_of, alone, inserted_events,
                      hub_time>>
       /\ UNCHANGED notHubVars

\* Connections whose samples the detector looks at (confident samples).
SharedNext ==
    \/ \E c \in Conns, sid \in HubSessions : gaze_websocket_accept(c, sid)
    \/ \E c \in Conns, names_session \in BOOLEAN :
           gaze_websocket_message(c, 95, names_session, MaxShared)
    \/ \E c \in Conns : gaze_websocket_finally(c)

\* Connections followed over more than a batch of the sink (samples the
\* detector skips).
HubNext ==
    \/ \E c \in Conns, sid \in HubSessions : gaze_websocket_accept(c, sid)
    \/ \E c \in Conns : gaze_websocket_message(c, 50, FALSE, MaxHub)
    \/ \E c \in Conns : gaze_websocket_finally(c)

(***************************************************************************)
(* GazeDataManager: a session on a page of many vocabulary words           *)
(*                                                                         *)
(* The words of the page are numbered; a worker's samples land on the      *)
(* words in their order, a sample on a new word or once more on the last   *)
(* one.                                                                    *)
(***************************************************************************)
Words == 1..MaxWords

VocabInit == distinct_texts = {}

\* _process_gaze_sample_from_sdk for a gaze on the vocabulary word `word`:
\* the vocabulary branch of _process_aoi_hits.
process_aoi_hits(word) ==
    LET hit_aoi == [id |-> word, text |-> word, vocabulary_word |-> TRUE]
        r == VocabularyHit(hit_aoi)
    IN /\ is_streaming
       /\ hit_log_manager # NoManager
       /\ \/ word = Cardinality(distinct_texts) + 1
          \/ /\ word = Cardinality(distinct_texts)
             /\ Len(hit_log_manager.hits) - Cardinality(distinct_texts) < MaxRepeats
       /\ distinct_texts' = distinct_texts \cup {word}
       /\ current_gaze' = [gaze_valid |-> 1, gaze_pos_x |-> 100 * word,
                           gaze_pos_y |-> 100]
       /\ total_samples' = total_samples + 1
       /\ hit_log_manager' = r.hit_log_manager
       /\ vocabulary_discoveries' = r.vocabulary_discoveries
       /\ achievement_manager' = r.achievement_manager
       /\ UNCHANGED <<is_streaming, current_session_id, session_start_time,
                      workers, exports, response, n_samples>>
       /\ UNCHANGED <<is_calibrating, calibration_points,
                      calibration_transform, calibration_result, n_captures>>
       /\ UNCHANGED notSampleVars

VocabNext ==
    \/ \E sid \in StreamIds : start_session(sid)
    \/ \E word \in Words : process_aoi_hits(word)

(***************************************************************************)
(* The position of a hit: `calibrated_x or gaze_pos_x` of                  *)
(* _process_aoi_hits and HitLog.create_from_gaze_and_aoi                   *)
(***************************************************************************)
NoHit == [looked_up |-> FALSE]

\* GazePoint.is_valid; from_sol_sdk sets confidence to float(valid).
is_valid(point) ==
    point.gaze_valid = 1 /\ point.gaze_pos_x >= 0 /\ point.gaze_pos_y >= 0

\* Python's `calibrated or raw`: None and 0.0 are false.
OrRaw(calibrated, raw) ==
    IF calibrated = NoCoordinate \/ calibrated[1] = 0 THEN <<raw, 1>>
    ELSE calibrated

\* Raw coordinates of the samples of SpecPos: those of SpecGaze and one
\* that a calibration maps left of and above the screen.
PosRawXs == RawXs \cup {40}
PosRawYs == RawYs \cup {20}

PosTransforms ==
    SampleTransforms
        \cup {[calibrated |-> TRUE, method |-> "linear",
               scale_x |-> <<3, 2>>, offset_x |-> <<-100, 1>>,
               scale_y |-> <<1, 1>>, offset_y |-> <<-50, 1>>]}

PosInit == hit_at = NoHit

PosSampleStart ==
    /\ sample_point \in {from_sol_sdk(valid, x, y) :
                             valid \in {0, 1}, x \in PosRawXs, y \in PosRawYs}
    /\ sample_transform \in PosTransforms

\* `if gaze_point.is_valid(): self._process_aoi_hits(gaze_point)`: hit_x and
\* hit_y of the lookup, gaze_x and gaze_y of the HitLog.
hit_coordinates ==
    /\ sample_point.calibrated_x # NoCoordinate
    /\ is_valid(sample_point)
    /\ hit_at = NoHit
    /\ hit_at' =
           [looked_up |-> TRUE,
            hit_x |-> OrRaw(sample_point.calibrated_x, sample_point.gaze_pos_x),
            hit_y |-> OrRaw(sample_point.calibrated_y, sample_point.gaze_pos_y),
            gaze_x |-> OrRaw(sample_point.calibrated_x, sample_point.gaze_pos_x),
            gaze_y |-> OrRaw(sample_point.calibrated_y, sample_point.gaze_pos_y)]
    /\ UNCHANGED notPosVars

PosNext ==
    \/ \E raises \in BOOLEAN : apply_calibration_transform(raises)
    \/ hit_coordinates

(***************************************************************************)
(* GazeDataManager: a snapshot taken while the worker processes a sample   *)
(*                                                                         *)
(* The worker thread and the event loop share the manager without a lock.  *)
(* _process_gaze_sample_from_sdk is followed statement by statement:       *)
(* current_gaze, the trail, and total_samples with the AOI processing; a   *)
(* request handler runs between any two of them.  A gaze carries the       *)
(* number of its sample as its timestamp.                                  *)
(***************************************************************************)
GazeTrailKeep == 20
TrailShown == 5
NoSnapshot == [taken |-> FALSE]

SnapInit ==
    /\ gaze_trail = <<>>
    /\ sample_pc = "from_sol_sdk"
    /\ frontend_data = NoSnapshot

\* `while self.is_streaming`, from_sol_sdk, apply_calibration_transform and
\* `self.current_gaze = gaze_point`.
set_current_gaze(gaze) ==
    /\ sample_pc = "from_sol_sdk"
    /\ is_streaming
    /\ total_samples < MaxSnapSamples
    /\ current_gaze' = [gaze_valid |-> gaze.gaze_valid,
                        gaze_pos_x |-> gaze.gaze_pos_x,
                        gaze_pos_y |-> gaze.gaze_pos_y,
                        timestamp |-> total_samples + 1]
    /\ sample_pc' = "gaze_trail"
    /\ UNCHANGED <<gaze_trail, frontend_data>>
    /\ UNCHANGED sessionVars
    /\ UNCHANGED <<is_calibrating, calibration_points, calibration_transform,
                   calibration_result, n_captures>>
    /\ UNCHANGED notSnapSampleVars

\* `self.gaze_trail.append(gaze_point)` and the pop of the oldest.
append_gaze_trail ==
    /\ sample_pc = "gaze_trail"
    /\ gaze_trail' = Last(Append(gaze_trail, current_gaze), GazeTrailKeep)
    /\ sample_pc' = "total_samples"
    /\ UNCHANGED frontend_data
    /\ UNCHANGED <<sessionVars, calibVars>>
    /\ UNCHANGED notSnapSampleVars

\* `self.total_samples += 1` and the AOI processing of the sample.
count_sample ==
    /\ sample_pc = "total_samples"
    /\ sample_pc' = "from_sol_sdk"
    /\ total_samples' = total_samples + 1
    /\ LET hit_aoi == FindStandardHit(current_gaze.gaze_pos_x,
                                      current_gaze.gaze_pos_y)
       IN IF hit_aoi # NoElement /\ hit_log_manager # NoManager
             /\ hit_aoi.vocabulary_word
          THEN LET r == VocabularyHit(hit_aoi)
               IN /\ hit_log_manager' = r.hit_log_manager
                  /\ vocabulary_discoveries' = r.vocabulary_discoveries
                  /\ achievement_manager' = r.achievement_manager
          ELSE UNCHANGED <<hit_log_manager, vocabulary_discoveries,
                           achievement_manager>>
    /\ UNCHANGED <<is_streaming, current_session_id, session_start_time,
                   workers, exports, response, n_samples>>
    /\ UNCHANGED <<gaze_trail, frontend_data>>
    /\ UNCHANGED calibVars
    /\ UNCHANGED notSnapSampleVars

\* GET /api/gaze/current: get_frontend_data, as far as the gaze goes.
get_current_gaze ==
    /\ frontend_data' = [taken |-> TRUE,
                         current |-> current_gaze,
                         trail |-> Last(gaze_trail, TrailShown),
                         total_samples |-> total_samples]
    /\ UNCHANGED <<gaze_trail, sample_pc>>
    /\ UNCHANGED notSnapVars

SnapNext ==
    \/ \E sid \in StreamIds : start_session(sid)
    \/ \E gaze \in MockGazes : set_current_gaze(gaze)
    \/ append_gaze_trail
    \/ count_sample
    \/ get_current_gaze

(***************************************************************************)
(* Specifications: one per component, over the whole state                 *)
(***************************************************************************)
vars == <<adaptVars, aoiVars, hitVars, unix_time, achVars, sessionVars, calibVars, gazeVars, wsVars, sseVars, hubVars, vocabVars, posVars, snapVars>>

\* The manager of SpecCalib has streamed before or not (current_gaze is the
\* last sample's gaze or None) and was constructed with or without a
\* calibration file.
CalibStart ==
    /\ AdaptInit /\ AoiInit /\ HitInit /\ unix_time = 0 /\ AchInit /\ SessionInit
    /\ is_calibrating = FALSE
    /\ calibration_points = <<>>
    /\ calibration_transform \in {DefaultTransform, LoadedTransform}
    /\ current_gaze \in {NoGaze} \cup MockGazes
    /\ calibration_result = [success |-> FALSE, message |-> "none"]
    /\ n_captures = 0
    /\ GazeInit /\ WsInit /\ SseInit /\ HubInit /\ VocabInit
    /\ PosInit /\ SnapInit

\* Samples a calibration has collected: gaze and screen coordinates equal,
\* on two values per axis, and one sample where they differ.
FitSamples ==
    {[point_index |-> 0, screen_x |-> 2, screen_y |-> 3, numeric |-> TRUE,
      gaze_x |-> 2, gaze_y |-> 3],
     [point_index |-> 1, screen_x |-> 8, screen_y |-> 3, numeric |-> TRUE,
      gaze_x |-> 8, gaze_y |-> 3],
     [point_index |-> 2, screen_x |-> 2, screen_y |-> 7, numeric |-> TRUE,
      gaze_x |-> 2, gaze_y |-> 7],
     [point_index |-> 3, screen_x |-> 8, screen_y |-> 7, numeric |-> TRUE,
      gaze_x |-> 5, gaze_y |-> 4]}

\* The manager of SpecFit is collecting and holds four or more samples.
FitStart ==
    /\ AdaptInit /\ AoiInit /\ HitInit /\ unix_time = 0 /\ AchInit /\ SessionInit
    /\ is_calibrating = TRUE
    /\ calibration_points \in
           UNION {[1..n -> FitSamples] : n \in MinCalibrationPoints..MaxCaptures}
    /\ calibration_transform = DefaultTransform
    /\ current_gaze = NoGaze
    /\ calibration_result = [success |-> TRUE, message |-> "capture"]
    /\ n_captures = Len(calibration_points)
    /\ GazeInit /\ WsInit /\ SseInit /\ HubInit /\ VocabInit
    /\ PosInit /\ SnapInit

\* The sample and the transform of SpecGaze are drawn from the inputs.
GazeSampleStart ==
    /\ AdaptInit /\ AoiInit /\ HitInit /\ unix_time = 0 /\ AchInit /\ SessionInit
    /\ CalibInit
    /\ GazeStart /\ WsInit /\ SseInit /\ HubInit /\ VocabInit
    /\ PosInit /\ SnapInit

\* PostgreSQL is available to the backend of SpecDetect, and available or
\* not to that of SpecIngest.
DetectStart ==
    /\ AdaptInit /\ AoiInit /\ HitInit /\ unix_time = 0 /\ AchInit /\ SessionInit
    /\ CalibInit
    /\ GazeInit /\ WsStart({TRUE}) /\ SseInit /\ HubInit /\ VocabInit
    /\ PosInit /\ SnapInit

IngestStart ==
    /\ AdaptInit /\ AoiInit /\ HitInit /\ unix_time = 0 /\ AchInit /\ SessionInit
    /\ CalibInit
    /\ GazeInit /\ WsStart(BOOLEAN) /\ SseInit /\ HubInit /\ VocabInit
    /\ PosInit /\ SnapInit

Init ==
    /\ AdaptInit /\ AoiInit /\ HitInit /\ unix_time = 0 /\ AchInit /\ SessionInit
    /\ CalibInit
    /\ GazeInit /\ WsInit /\ SseInit /\ HubInit /\ VocabInit
    /\ PosInit /\ SnapInit

SpecAdapt == Init /\ [][AdaptNext]_vars

SpecAoi == Init /\ [][AoiNext]_vars

SpecHitLog == Init /\ [][HitNext]_vars

SpecAch == Init /\ [][AchNext]_vars

SpecSession == Init /\ [][SessionNext]_vars

SpecCalib == CalibStart /\ [][CalibNext]_vars

FitNext == calculate_calibration_transform

SpecFit == FitStart /\ [][FitNext]_vars

SpecGaze == GazeSampleStart /\ [][GazeNext]_vars

SpecDetect == DetectStart /\ [][DetectNext]_vars

SpecIngest == IngestStart /\ [][IngestNext]_vars

\* PostgreSQL is available to the backend of SpecShared and SpecHub.
HubStart ==
    /\ AdaptInit /\ AoiInit /\ HitInit /\ unix_time = 0 /\ AchInit /\ SessionInit
    /\ CalibInit
    /\ GazeInit /\ WsStart({TRUE}) /\ SseInit /\ HubInit /\ VocabInit
    /\ PosInit /\ SnapInit

SpecShared == HubStart /\ [][SharedNext]_vars

SpecHub == HubStart /\ [][HubNext]_vars

SpecVocab == Init /\ [][VocabNext]_vars

SpecSnap == Init /\ [][SnapNext]_vars

\* The sample and the transform of SpecPos are drawn from the inputs.
PosStart ==
    /\ AdaptInit /\ AoiInit /\ HitInit /\ unix_time = 0 /\ AchInit /\ SessionInit
    /\ CalibInit
    /\ PosSampleStart /\ WsInit /\ SseInit /\ HubInit /\ VocabInit
    /\ PosInit /\ SnapInit

SpecPos == PosStart /\ [][PosNext]_vars

\* The event loop runs every generator that can take a step; requests, and
\* clients going away, come when they come.
SpecStream ==
    /\ Init /\ [][StreamNext]_vars
    /\ \A r \in Requests : WF_vars(event_stream_step(r))

(***************************************************************************)
(* Rule engine: rate limit and rule table                                  *)
(***************************************************************************)

\* An event some rule answers with a command.
Qualifying(event_data) == EvaluateRules(rules, event_data, 0) # <<>>

\* The session has a command emitted less than 5000 ms before `now`.
EmittedRecently(s, now) ==
    \E i \in 1..Len(emitted[s]) : now - emitted[s][i] < FeedbackRateLimitMs

\* C1: for every session, any two feedback commands emitted for it are at
\* least 5000 ms apart (at most one command in any 5000 ms interval).
AtMostOneCommandPer5s ==
    \A s \in Sessions : \A i, j \in 1..Len(emitted[s]) :
        i < j => emitted[s][j] - emitted[s][i] >= FeedbackRateLimitMs

\* C2: a qualifying event processed less than 5000 ms after a command was
\* emitted for its session emits nothing; one processed 5000 ms or more after
\* the last emitted command emits a command.
RateLimitSuppressesThenReleases ==
    [][\A e \in Events :
          (e.session_id \in Sessions /\ Qualifying(e) /\ process_event(e)) =>
              IF EmittedRecently(e.session_id, clock)
              THEN returned' = <<>>
              ELSE returned' # <<>>]_vars

FirstOnly(commands) == IF commands = <<>> THEN <<>> ELSE <<Head(commands)>>

\* C3: an event that satisfies several rules emits only the command of the
\* first matching rule in table order.
OnlyFirstMatchingRuleEmits ==
    [][\A e \in Events :
          (process_event(e) /\ last_call' = "evaluated") =>
              returned' = FirstOnly(EvaluateRules(rules, e, clock))]_vars

VocabularyAoiIds == EventAoiIds

VocabularyCards(commands) ==
    {i \in 1..Len(commands) : commands[i].type = "vocabularyCard"}

\* C4: a fixation of >= 1500 ms on a vocabulary AOI, processed while the
\* session is not rate-limited, yields exactly one vocabularyCard command,
\* and its payload carries the AOI's id.
VocabularyFixationYieldsOneCard ==
    [][\A e \in Events :
          (/\ process_event(e)
           /\ last_call' = "evaluated"
           /\ e.event_type = "fixation"
           /\ e.duration_ms >= 1500
           /\ e.aoi_id \in VocabularyAoiIds) =>
              /\ Cardinality(VocabularyCards(returned')) = 1
              /\ \A i \in VocabularyCards(returned') :
                     returned'[i].word_id = e.aoi_id]_vars

\* C5: an event of a registered session processed less than 5000 ms after the
\* session's last_feedback_time returns no command, sends nothing and leaves
\* the session's state (last_feedback_time, feedback_count) unchanged.
RateLimitedEventIsSuppressed ==
    [][\A e \in Events :
          (/\ e.session_id \in Sessions
           /\ session_states[e.session_id] # NoState
           /\ clock - session_states[e.session_id].last_feedback_time
                  < FeedbackRateLimitMs
           /\ process_event(e)) =>
              /\ returned' = <<>>
              /\ last_call' = "rate_limited"
              /\ sent' = sent
              /\ emitted' = emitted
              /\ session_states' = session_states
              /\ websocket_connections' = websocket_connections]_vars

\* A registered session that has had feedback has just had an event suppressed
\* 4999 ms after it.
RateLimitedEventWasSuppressed ==
    \E s \in Sessions :
        /\ last_call = "rate_limited"
        /\ returned = <<>>
        /\ session_states[s] # NoState
        /\ session_states[s].feedback_count > 0
        /\ clock - session_states[s].last_feedback_time = 4999

(***************************************************************************)
(* AOI index                                                               *)
(***************************************************************************)

\* The AOIs currently in the index (the values of `elements`).
InIndex == {elements[i] : i \in AoiIds} \ {NoElement}

InBoth(x, y) ==
    /\ \E v \in InIndex : v.vocabulary_word /\ contains_point(v, x, y)
    /\ \E c \in InIndex : ~c.vocabulary_word /\ contains_point(c, x, y)

\* C6: for every point inside both a vocabulary AOI and a content AOI of the
\* index, find_hit returns a vocabulary AOI.
VocabularyWinsOverContent ==
    \A p \in Points :
        InBoth(p[1], p[2]) =>
            /\ find_hit(p[1], p[2]) # NoElement
            /\ find_hit(p[1], p[2]).vocabulary_word

\* The index holds a vocabulary AOI and a content AOI that overlap, and
\* find_hit answers a point in both with the vocabulary AOI.
VocabularyHitOverContent ==
    /\ \E p \in Points :
          /\ InBoth(p[1], p[2])
          /\ find_hit(p[1], p[2]).vocabulary_word
          /\ FirstContaining(content_areas, p[1], p[2]) # NoElement

\* C7: the index holds one AOI per id, and find_hit returns for an id only the
\* AOI last added under it.
DuplicateAddReplaces ==
    /\ \A i \in AoiIds :
           Cardinality({k \in 1..Len(vocabulary_words) : vocabulary_words[k].id = i})
           + Cardinality({k \in 1..Len(content_areas) : content_areas[k].id = i})
               <= 1
    /\ \A p \in Points :
           LET h == find_hit(p[1], p[2])
           IN h # NoElement => elements[h.id] = h

TierOf(aoi) == IF aoi.vocabulary_word THEN vocabulary_words ELSE content_areas

NonOverlapping(a, b) ==
    \/ a.x + a.width <= b.x \/ b.x + b.width <= a.x
    \/ a.y + a.height <= b.y \/ b.y + b.height <= a.y

\* C9: no point is contained in two non-overlapping AOIs of the index, in
\* particular not a point on the edge two adjacent AOIs share.
NoDoubleHitOnSharedEdge ==
    \A a, b \in InIndex :
        (a # b /\ NonOverlapping(a, b)) =>
            \A p \in Points :
                ~(contains_point(a, p[1], p[2]) /\ contains_point(b, p[1], p[2]))

(***************************************************************************)
(* Hit log                                                                 *)
(***************************************************************************)

IsPrefix(s, t) == Len(s) <= Len(t) /\ SubSeq(t, 1, Len(s)) = s

StrictlyIncreasingSeq(log) ==
    \A k \in 1..(Len(log) - 1) :
        log[k].sequence_number < log[k + 1].sequence_number

\* C10: every step leaves the entries already in the hit log in place and
\* unchanged (append-only), and the sequence numbers of the log are strictly
\* increasing in log order.
HitLogAppendOnlyIncreasingSeq ==
    [][IsPrefix(hits, hits') /\ StrictlyIncreasingSeq(hits')]_vars

\* The log holds an entry appended by add_hit followed by one appended by
\* end_fixation, and a later entry.
HitLogHasDirectAndFixationHits ==
    /\ Len(hits) >= 3
    /\ hits[1].hit_type = "2d"
    /\ hits[2].hit_type = "fixation"
    /\ hits[3].sequence_number = 3

(***************************************************************************)
(* Streaming sessions                                                      *)
(***************************************************************************)

\* The manager's session state: everything but the last response.
sessionState ==
    <<is_streaming, current_session_id, session_start_time, total_samples,
      hit_log_manager, achievement_manager, vocabulary_discoveries>>

\* C11: a stop request made while nothing is streaming (a second stop after
\* the first) changes no session state, stops or starts no worker and writes
\* no export file.
SecondStopIsNoOp ==
    [][\A sid \in StreamIds, write_ok \in BOOLEAN :
          (~is_streaming /\ stop_session(sid, write_ok)) =>
              /\ sessionState' = sessionState
              /\ workers' = workers
              /\ exports' = exports]_vars

\* A session that processed a sample was stopped and exported, and the stop
\* after that one found nothing streaming.
StoppedTwice ==
    /\ response.path = "not_streaming"
    /\ ~is_streaming
    /\ Len(exports) = 1
    /\ exports[1].total_samples > 0
    /\ total_samples = exports[1].total_samples

\* C12: a start request made while a session is streaming leaves the running
\* session's id, start time, hit log, achievements and sample counter
\* unchanged and starts no worker.
StartWhileStreamingIsNoOp ==
    [][\A sid \in StreamIds :
          (is_streaming /\ start_session(sid)) =>
              /\ sessionState' = sessionState
              /\ workers' = workers]_vars

\* A start request has just found a session streaming that was started
\* earlier and has logged a vocabulary hit and unlocked an achievement.
StartedWhileStreaming ==
    /\ response.path = "already_streaming"
    /\ is_streaming
    /\ session_start_time < unix_time
    /\ total_samples > 0
    /\ Len(hit_log_manager.hits) > 0
    /\ achievement_manager.recent_unlocks # <<>>

\* C13: a stop request naming a session id other than the streaming session's
\* is answered with an error and leaves the streaming session running,
\* unexported and unchanged.
StopOfOtherSessionIsRejected ==
    [][\A sid \in StreamIds, write_ok \in BOOLEAN :
          (/\ is_streaming
           /\ sid # current_session_id
           /\ stop_session(sid, write_ok)) =>
              /\ response'.status = "error"
              /\ sessionState' = sessionState
              /\ workers' = workers
              /\ exports' = exports]_vars

\* C14: no worker processes a sample once streaming has been stopped, and an
\* export written by a stop carries the number of samples processed for the
\* session with no worker in the middle of a round.
StopDrainsBeforeExport ==
    [][/\ \A w \in WorkerIds, gaze \in MockGazes :
              worker_sample(w, gaze) => is_streaming
       /\ \A sid \in StreamIds, write_ok \in BOOLEAN :
              (stop_session(sid, write_ok) /\ exports' # exports) =>
                  /\ exports'[Len(exports')].total_samples = total_samples
                  /\ \A w \in WorkerIds : workers[w] # "sample"]_vars

\* C31: the session_id a successful start request returns is the id of the
\* session that is streaming after the request, also when a session with
\* another id was streaming when the request came.
StartReturnsStreamingSession ==
    [][\A sid \in StreamIds :
          (start_session(sid) /\ response'.status = "success") =>
              /\ is_streaming'
              /\ current_session_id' = response'.session_id]_vars

\* C33: while the manager streams, at most one worker thread is in its
\* loop: a start that follows a stop does not leave the worker of the
\* stopped session running alongside the new one.
Running == {w \in WorkerIds : workers[w] \in {"while", "sample"}}

AtMostOneWorker == is_streaming => Cardinality(Running) <= 1

\* C34: a start request that starts a session leaves it with empty live
\* state: no vocabulary discovery recorded during an earlier session is in
\* vocabulary_discoveries.
NewSessionStartsEmpty ==
    [][\A sid \in StreamIds :
          (~is_streaming /\ start_session(sid)) =>
              vocabulary_discoveries' = <<>>]_vars

\* C38: the count that drives the vocabulary achievements is the number of
\* distinct vocabulary texts discovered in the session: each vocabulary
\* achievement is unlocked once that many texts have been discovered (the
\* 20-word achievement after 20).
VocabularyAchievementsUnlock ==
    \A k \in 1..Len(vocab_achievement_ids) :
        LET a == vocab_achievement_ids[k]
        IN (/\ achievement_manager # NoManager
            /\ Cardinality(distinct_texts) >= AchievementTargets[a]) =>
               achievement_manager.achievements[a].unlocked

\* The session was started and has been stopped since.
Stopped == ~is_streaming /\ current_session_id # NoSession

\* The generator of request r has started and has not returned.
Subscribed(r) == event_stream[r] \notin {"not_requested", "returned"}

\* C29: a subscription to /api/gaze/stream that is open when the session is
\* stopped eventually terminates: its generator returns, whether or not the
\* client ever disconnects.
SubscriptionEndsAfterStop ==
    \A r \in Requests :
        (Stopped /\ Subscribed(r)) ~> (event_stream[r] = "returned")

\* C27: every processed valid sample whose position lies inside an AOI, a
\* vocabulary word or a content area, appends exactly one entry to the hit
\* log of the session (so that the exported log has one entry per such
\* sample).
EveryAoiSampleIsLogged ==
    [][\A w \in WorkerIds, gaze \in MockGazes :
          (/\ hit_log_manager # NoManager
           /\ FindStandardHit(gaze.gaze_pos_x, gaze.gaze_pos_y) # NoElement
           /\ worker_sample(w, gaze)) =>
              Len(hit_log_manager'.hits) = Len(hit_log_manager.hits) + 1]_vars

(***************************************************************************)
(* Achievements                                                            *)
(***************************************************************************)

\* C15: an unlocked achievement stays unlocked and keeps its unlocked_at in
\* every later step.
UnlockIsPermanent ==
    [][\A i \in AchievementIds :
          achievements[i].unlocked =>
              /\ achievements'[i].unlocked
              /\ achievements'[i].unlocked_at = achievements[i].unlocked_at]_vars

\* first_word was unlocked at an earlier time and has since been updated with
\* a value below its target.
UnlockedThenUpdatedBelowTarget ==
    /\ achievements["first_word"].unlocked
    /\ achievements["first_word"].unlocked_at < unix_time
    /\ achievements["first_word"].current_value
           < achievements["first_word"].target_value

\* C16: no step lowers the current_value of an achievement.
CurrentValueNeverDecreases ==
    [][\A i \in AchievementIds :
          achievements'[i].current_value >= achievements[i].current_value]_vars

Occurrences(x, list) == Cardinality({k \in 1..Len(list) : list[k] = x})

\* C17: an achievement has been returned as newly unlocked once if it is
\* unlocked and never if it is not, and it is at most once in recent_unlocks.
UnlockReportedOnce ==
    \A i \in AchievementIds :
        /\ Occurrences(i, reported) = IF achievements[i].unlocked THEN 1 ELSE 0
        /\ Occurrences(i, recent_unlocks) <= 1

\* first_word was unlocked, and a later update that unlocked vocab_explorer
\* carried a value that reaches first_word's target again.
ReachedTargetAgainUnreported ==
    /\ achievements["first_word"].unlocked
    /\ achievements["vocab_explorer"].unlocked
    /\ achievements["first_word"].unlocked_at
           < achievements["vocab_explorer"].unlocked_at
    /\ reported = <<"first_word", "vocab_explorer">>
    /\ recent_unlocks = reported

(***************************************************************************)
(* Calibration                                                             *)
(***************************************************************************)

\* C18: a transform calculation (homography or linear) requested with fewer
\* than 4 captured points returns a failure and leaves the calibration
\* transform, the captured points and is_calibrating unchanged.
TooFewPointsLeavesCalibrationAlone ==
    [][(/\ Len(calibration_points) < MinCalibrationPoints
        /\ \/ calculate_calibration_transform
           \/ \E solved \in BOOLEAN :
                  calculate_homography_calibration_transform(solved)) =>
           /\ ~calibration_result'.success
           /\ calibration_transform' = calibration_transform
           /\ calibration_points' = calibration_points
           /\ is_calibrating' = is_calibrating]_vars

\* A calculation with 3 captured points has just failed, during a
\* calibration of a manager that has a transform.
FailedWithThreePoints ==
    /\ ~calibration_result.success
    /\ calibration_result.message \in {"Need at least 4 points",
                                       "Need at least 4 points for homography"}
    /\ Len(calibration_points) = 3
    /\ is_calibrating
    /\ calibration_transform.calibrated

\* C19: a capture adds a point only while is_calibrating is set; otherwise
\* (before start_calibration_process, after a completed calculation) it is
\* rejected and leaves the points unchanged; start_calibration_process
\* empties the points.
PointsOnlyAddedWhileCollecting ==
    [][/\ \A target \in CalibrationTargets :
              (capture_calibration_point(target) /\ ~is_calibrating) =>
                  /\ ~calibration_result'.success
                  /\ calibration_points' = calibration_points
       /\ start_calibration_process => calibration_points' = <<>>]_vars

\* A capture has just been rejected after a calculation from 4 points
\* succeeded.
CaptureRejectedAfterCalculation ==
    /\ calibration_result = [success |-> FALSE, message |-> "capture"]
    /\ ~is_calibrating
    /\ current_gaze # NoGaze
    /\ Len(calibration_points) = MinCalibrationPoints
    /\ calibration_transform.points_used = MinCalibrationPoints

\* C20: the captured points hold at most one point per point_index.
OnePointPerIndex ==
    \A i, j \in 1..Len(calibration_points) :
        i # j => calibration_points[i].point_index
                     # calibration_points[j].point_index

(***************************************************************************)
(* Screen coordinates of processed samples                                 *)
(***************************************************************************)
Processed == sample_point.calibrated_x # NoCoordinate

\* C21: every processed sample's screen coordinates lie on the screen,
\* 0 <= screen_x <= screen width and 0 <= screen_y <= screen height, with a
\* calibration transform loaded or without one.
ScreenCoordinatesOnScreen ==
    Processed =>
        /\ RatLeq(<<0, 1>>, sample_point.calibrated_x)
        /\ RatLeq(sample_point.calibrated_x,
                  <<Get(sample_transform, "screen_width", DefaultScreenWidth), 1>>)
        /\ RatLeq(<<0, 1>>, sample_point.calibrated_y)
        /\ RatLeq(sample_point.calibrated_y,
                  <<Get(sample_transform, "screen_height", DefaultScreenHeight), 1>>)

(***************************************************************************)
(* Linear calibration of points whose gaze is already on target            *)
(***************************************************************************)
GazeEqualsScreen ==
    \A k \in 1..Len(calibration_points) :
        /\ calibration_points[k].gaze_x = calibration_points[k].screen_x
        /\ calibration_points[k].gaze_y = calibration_points[k].screen_y

\* All gaze x values are the same while the y values are not.
DegenerateXOnly ==
    /\ Cardinality({calibration_points[k].gaze_x :
                        k \in 1..Len(calibration_points)}) = 1
    /\ Cardinality({calibration_points[k].gaze_y :
                        k \in 1..Len(calibration_points)}) > 1

\* C22: a linear calibration computed from four or more points whose gaze
\* coordinates equal their screen coordinates has scale 1 and offset 0 on both
\* axes and an error of 0 on every point (accuracy 0 px), also when all the
\* values of an axis are the same.
IdentityPointsGiveIdentityTransform ==
    (calibration_result.message = "linear" /\ GazeEqualsScreen) =>
        /\ RatEq(calibration_transform.scale_x, <<1, 1>>)
        /\ RatEq(calibration_transform.offset_x, <<0, 1>>)
        /\ RatEq(calibration_transform.scale_y, <<1, 1>>)
        /\ RatEq(calibration_transform.offset_y, <<0, 1>>)
        /\ \A k \in 1..Len(calibration_transform.errors_squared) :
               calibration_transform.errors_squared[k][1] = 0

IdentityCalibrationOnDegenerateAxis ==
    /\ calibration_result.message = "linear"
    /\ GazeEqualsScreen
    /\ DegenerateXOnly

(***************************************************************************)
(* Fixation events of a stream of samples                                  *)
(***************************************************************************)
\* The samples that entered the detector carry increasing timestamps.
StreamIncreasing ==
    \A k \in 1..(Len(sample_buffer) - 1) :
        sample_buffer[k].timestamp < sample_buffer[k + 1].timestamp

\* Samples a..b of the stream lie within the dispersion threshold, and
\* neither the sample before them nor the sample after them does with them:
\* a run that the sample after it has ended.
EndedRun(a, b) ==
    /\ a <= b /\ b < Len(sample_buffer)
    /\ DispersionWithin(SubSeq(sample_buffer, a, b))
    /\ a = 1 \/ ~DispersionWithin(SubSeq(sample_buffer, a - 1, b))
    /\ ~DispersionWithin(SubSeq(sample_buffer, a, b + 1))

\* The fixation events the detector has emitted inside the time of a..b.
FixationsOver(a, b) ==
    {k \in 1..Len(detected) :
        /\ detected[k].event_type = "fixation"
        /\ detected[k].start_ts >= sample_buffer[a].timestamp
        /\ detected[k].end_ts <= sample_buffer[b].timestamp}

\* C23: for a maximal run of consecutive samples within the dispersion
\* threshold that spans at least the minimum fixation time, the detector
\* emits exactly one fixation event over the whole stream, and it starts at
\* the first and ends at the last sample of the run.
OneFixationPerRun ==
    StreamIncreasing =>
        \A a, b \in 1..Len(sample_buffer) :
            (/\ EndedRun(a, b)
             /\ sample_buffer[b].timestamp - sample_buffer[a].timestamp
                    >= MinFixationMs)
            => \E k \in 1..Len(detected) :
                   /\ FixationsOver(a, b) = {k}
                   /\ detected[k].start_ts = sample_buffer[a].timestamp
                   /\ detected[k].end_ts = sample_buffer[b].timestamp

\* C24: every fixation event the detector emits lasts at least the minimum
\* fixation time of 200 ms; samples that stay together for less emit none.
FixationsLastMinimum ==
    \A k \in 1..Len(detected) :
        detected[k].event_type = "fixation"
            => detected[k].duration_ms >= MinFixationMs

\* C25: the events handed to the rule engine for the session are in
\* non-decreasing order of end_ts, over all the samples of the session.
\* (Stated for samples that arrive in the order of their timestamps.)
HandedMonotonicInEndTs ==
    StreamIncreasing =>
        \A i, j \in 1..Len(handed) :
            i < j => handed[i].end_ts <= handed[j].end_ts

\* C26: the samples the processing logic of a session observes carry
\* strictly increasing timestamps: a received sample that is not later than
\* its predecessor does not enter the detector after it.
ObservedTimestampsIncrease == StreamIncreasing

(***************************************************************************)
(* The sample buffer of a session and the bulk-append sink                 *)
(***************************************************************************)
\* C28: when the sink fails, a batch is attempted at most 3 times in all
\* (and is then dropped and counted as lost).
BatchAttemptedThreeTimes ==
    \A k \in 1..Len(attempts) : attempts[k] <= 3

\* The sample numbers received and not written by the sink, in order.
Unpersisted ==
    SelectSeq([k \in 1..sample_count |-> k - 1], LAMBDA n : n \notin persisted)

IsSuffix(s, t) ==
    Len(s) <= Len(t) /\ s = SubSeq(t, Len(t) - Len(s) + 1, Len(t))

\* C30: at every point the buffer of the session holds at most 100 samples,
\* and they are the most recent of the received samples not yet persisted,
\* without a gap and in the order of arrival.
BufferIsRecentUnpersisted ==
    /\ Len(gaze_data_buffer) <= BufferKeep
    /\ IsSuffix([k \in 1..Len(gaze_data_buffer) |->
                    gaze_data_buffer[k].sample_number], Unpersisted)

(***************************************************************************)
(* Connections that share the processing service, the buffers and the sink *)
(***************************************************************************)

\* C32: the events handed on for a session are those a detector fed that
\* session's samples alone returns: the samples of another session,
\* interleaved with them, add, remove and change none.
SessionEventsAreItsOwn ==
    \A s \in HubSessions : events_of[s] = alone[s].events

\* C37: every event stored for a sample received on /ws/sessions/{id} is
\* stored under the session id {id} and was mapped with the lesson that
\* session registered, never under a default or unknown session id.
EventsStoredUnderPathSession ==
    \A e \in inserted_events :
        e.session_id = e.path /\ e.lesson_id = DefaultLesson

\* C36: when two connections use one session id, the finally block of one
\* leaves the registration, the buffer and the rate-limit state of that id
\* in place for the other, and a later sample of the other is buffered and
\* counted.
OtherOpen(c) ==
    \E d \in Conns \ {c} :
        /\ websockets[d].state = "open"
        /\ websockets[d].session_id = websockets[c].session_id

DisconnectLeavesSharedSession ==
    [][/\ \A c \in Conns :
              (OtherOpen(c) /\ gaze_websocket_finally(c)) =>
                  LET sid == websockets[c].session_id
                  IN /\ buffer_of'[sid] # NoBuffer
                     /\ registrations'[sid] # NoConn
                     /\ active_sessions'[sid] # NoConn
       /\ \A c \in Conns :
              (/\ websockets[c].state = "open"
               /\ Len(arrived') = Len(arrived) + 1
               /\ arrived'[Len(arrived')].conn = c) =>
                  /\ websockets'[c].sample_count = websockets[c].sample_count + 1
                  /\ buffer_of'[websockets[c].session_id] # NoBuffer]_vars

\* The samples of session id s in a list, in the list's order.
Of(list, s) ==
    LET RECURSIVE Keep(_)
        Keep(k) == IF k > Len(list) THEN <<>>
                   ELSE (IF list[k].session_id = s THEN <<list[k]>> ELSE <<>>)
                        \o Keep(k + 1)
    IN Keep(1)

\* Connections used session id s and every one of them has ended.
SessionEnded(s) ==
    /\ \E c \in Conns : websockets[c].session_id = s
    /\ \A c \in Conns :
           websockets[c].session_id = s => websockets[c].state = "ended"

\* C40: with a sink that does not fail, once a session has ended the sink
\* holds every sample received for it, once each and in arrival order.
EverySampleWrittenOnce ==
    \A s \in HubSessions : SessionEnded(s) => Of(sink, s) = Of(arrived, s)

(***************************************************************************)
(* The position of a hit                                                   *)
(***************************************************************************)

\* C35: for a valid sample processed under a calibrated transform, the
\* position the AOI lookup uses and the position the hit records are the
\* calibrated screen coordinates, a coordinate of exactly 0 included.
HitUsesCalibratedCoordinates ==
    (hit_at # NoHit /\ Get(sample_transform, "calibrated", FALSE)) =>
        /\ RatEq(hit_at.hit_x, sample_point.calibrated_x)
        /\ RatEq(hit_at.hit_y, sample_point.calibrated_y)
        /\ RatEq(hit_at.gaze_x, sample_point.calibrated_x)
        /\ RatEq(hit_at.gaze_y, sample_point.calibrated_y)

(***************************************************************************)
(* Snapshots                                                               *)
(***************************************************************************)

\* C39: every snapshot is a view taken between two samples: a current gaze
\* that is not None is the last element of the trail, and total_samples
\* counts that sample.
SnapshotIsConsistent ==
    (frontend_data # NoSnapshot /\ frontend_data.current # NoGaze) =>
        /\ frontend_data.trail # <<>>
        /\ frontend_data.trail[Len(frontend_data.trail)] = frontend_data.current
        /\ frontend_data.total_samples = frontend_data.current.timestamp

====
